---- MODULE Spec2Model ----
(***************************************************************************)
(* Inventory coordination engine of the validation service:                *)
(*   InventoryManager (src/inventory_manager.py), the store it persists to *)
(*   (src/db_client.py), the request handlers and the periodic detection   *)
(*   of MainValidation (src/main_validation.py) and the asyncio service    *)
(*   that runs them (src/validation_app2.py).                              *)
(*                                                                         *)
(* The specifications share the variables:                                 *)
(*   Spec      one request handler per step, computed as the handler       *)
(*             computes it (the functional claims);                        *)
(*   SpecConc  the event-loop thread and the detection worker thread,      *)
(*             one statement group per step (the concurrency claims);      *)
(*   SpecInv   one call of an InventoryManager method per step (the        *)
(*             claims about the methods themselves);                       *)
(*   SpecCoord one message taken, dispatched and answered by a coordinator *)
(*             per step (the claims about dispatch and responses).         *)
(*   SpecRefill one inventory_refill request or one detection run per step; *)
(*   SpecLoop  the lifecycle of the periodic detection task: start, tick,  *)
(*             detection job, cancel and stop, with the fairness of the    *)
(*             event loop;                                                 *)
(*   SpecBlock inventory_refill handlers beside update_inventory handlers  *)
(*             on the event-loop thread;                                   *)
(*   SpecStore update_inventory handlers beside a second service instance  *)
(*             that writes the same table;                                 *)
(*   SpecPar   update_inventory handlers on pairwise disjoint keys;        *)
(*   SpecAlert the registered handlers of the mutating requests with the   *)
(*             events they send;                                           *)
(*   SpecQueue the request and response queues of the REST front end       *)
(*             (src/rest_app.py) with their event flags and worker threads.*)
(***************************************************************************)
EXTENDS Integers, Sequences, FiniteSets, TLC

VARIABLES
    inventory_cache,   \* InventoryManager.inventory_cache: key -> current_amount
    db,                \* the inventory table: key -> current_amount
    shot_to_grams,     \* inventory_rules["coffee_beans"]["shot_to_grams"]
    last,              \* the request handled last, the state it started from and its response
    nops,              \* number of requests handled so far
    pc,                \* SpecConc: position of each request's handler task
    running,           \* SpecConc: the task that holds the event-loop thread (0: none)
    task,              \* SpecConc: locals of each handler task
    det,               \* SpecConc: the detection job on the worker thread
    loop_pc,           \* SpecConc: position of _periodic_detection_loop
    hist,              \* SpecConc: bookkeeping of completed mutations per key
    sched,             \* SpecLoop: _detection_running, the caller of stop_periodic_detection
                       \* and the detection jobs whose future is no longer awaited
    chan               \* SpecQueue: the request and response queues, their event flags
                       \* and the positions of the two worker threads

vars == <<inventory_cache, db, shot_to_grams, last, nops, pc, running, task, det, loop_pc, hist,
         sched, chan>>
concVars == <<pc, running, task, det, loop_pc, hist, sched, chan>>

(***************************************************************************)
(* Bounds of the model                                                     *)
(***************************************************************************)
MaxOps == 1          \* requests handled in one behaviour of Spec
MaxIngredients == 2  \* ingredients of one update_inventory request
MaxItems == 2        \* drink items of one pre_check request
MaxReq == 2          \* requests submitted in one behaviour of SpecConc
MaxAmount == 3       \* largest amount passed to an InventoryManager method in SpecInv

(***************************************************************************)
(* Static rules and the initial store                                      *)
(***************************************************************************)
CB == <<"coffee_beans", "regular">>
CUP == <<"cups", "H9">>
MILK == <<"milk", "whole">>
DECAF == <<"coffee_beans", "decaf">>
SYRUP == <<"syrup", "vanilla">>

Keys == {CB, CUP, MILK, DECAF, SYRUP}

CacheTypes == {"coffee_beans", "cups", "milk", "syrup"}

inventory_rules ==
    [k \in Keys |->
        IF k = CB THEN [warning_threshold |-> 20, critical_threshold |-> 10, max_capacity |-> 40]
        ELSE IF k = CUP THEN [warning_threshold |-> 2, critical_threshold |-> 1, max_capacity |-> 4]
        ELSE IF k = MILK THEN [warning_threshold |-> 3, critical_threshold |-> 2, max_capacity |-> 6]
        ELSE IF k = DECAF
        THEN [warning_threshold |-> 40, critical_threshold |-> 20, max_capacity |-> 200]
        ELSE [warning_threshold |-> 3, critical_threshold |-> 2, max_capacity |-> 8]]

\* shots -> grams tables the rules file may hold (the empty table: every lookup misses)
ShotTables == { <<>>, <<8, 16>> }

\* contents of the inventory table when the service starts: a full store, a
\* store whose every row is one consumption away from its critical threshold
\* and a store whose every row is below its critical threshold
InitialStores ==
    { [k \in Keys |-> inventory_rules[k].max_capacity],
      [k \in Keys |-> IF k = CB THEN 28 ELSE IF k = CUP THEN 2 ELSE IF k = MILK THEN 4
                      ELSE IF k = DECAF THEN 60 ELSE 4],
      [k \in Keys |-> IF k = CB THEN 5 ELSE IF k = CUP THEN 0 ELSE IF k = MILK THEN 1
                      ELSE IF k = DECAF THEN 19 ELSE 1] }

DefaultGramsPerShot == 9

(***************************************************************************)
(* InventoryManager                                                        *)
(***************************************************************************)
ConvertIgnoringTable(shots) == shots * DefaultGramsPerShot

\* shot_conversions.get(shots, shots * 9)
convert_shots_to_grams(shots) ==
    IF shots \in DOMAIN shot_to_grams
    THEN shot_to_grams[shots]
    ELSE shots * DefaultGramsPerShot

get_current_count(cache, store, k) ==
    IF k \in DOMAIN cache THEN cache[k]
    ELSE IF k \in DOMAIN store THEN store[k]
    ELSE 0

critical_threshold(cache, k) ==
    IF k \in DOMAIN cache THEN inventory_rules[k].critical_threshold ELSE 0

warning_threshold(cache, k) ==
    IF k \in DOMAIN cache THEN inventory_rules[k].warning_threshold ELSE 0

\* DatabaseClient.update_inventory: the row is written iff it exists and the
\* transaction commits (ok); every error is turned into False
db_update_inventory(store, k, new_amount, ok) ==
    IF ok /\ k \in DOMAIN store
    THEN [store |-> [store EXCEPT ![k] = new_amount], success |-> TRUE]
    ELSE [store |-> store, success |-> FALSE]

\* the amount update_inventory adds: shots are converted for coffee beans
AppliedAmount(k, amount) ==
    IF k[1] = "coffee_beans" THEN convert_shots_to_grams(amount) ELSE amount

WarningLevelSwapped(new_amount, crit, warn) ==
    IF new_amount < warn THEN "warning"
    ELSE IF new_amount < crit THEN "critical"
    ELSE "no_warning"

WarningLevel(new_amount, crit, warn) ==
    IF new_amount < crit THEN "critical"
    ELSE IF new_amount < warn THEN "warning"
    ELSE "no_warning"

CacheAfterWriteAlways(cache, k, new_amount, success) ==
    IF k \in DOMAIN cache THEN [cache EXCEPT ![k] = new_amount] ELSE cache

CacheAfterWrite(cache, k, new_amount, success) ==
    IF success /\ k \in DOMAIN cache THEN [cache EXCEPT ![k] = new_amount] ELSE cache

\* InventoryManager.update_inventory(ingredient_type, subtype, amount)
update_inventory(cache, store, k, amount, ok) ==
    LET applied == AppliedAmount(k, amount)
        current_amount == get_current_count(cache, store, k)
        new_amount == current_amount + applied
        w == db_update_inventory(store, k, new_amount, ok)
    IN  [cache |-> CacheAfterWrite(cache, k, new_amount, w.success),
         store |-> w.store,
         success |-> w.success,
         warning |-> IF w.success
                     THEN WarningLevel(new_amount, critical_threshold(cache, k),
                                       warning_threshold(cache, k))
                     ELSE "no_warning",
         applied |-> applied,
         current_amount |-> current_amount]

(***************************************************************************)
(* Requests                                                                *)
(***************************************************************************)
ClientTypes == {"scheduler", "dashboard"}

\* one entry of payload["ingredients"]: {ingredient: {"type": ..., "amount": ...}}
IngredientChoices ==
    { [ingredient |-> "espresso", type |-> "regular", amount |-> 2],
      [ingredient |-> "milk", type |-> "whole", amount |-> 2],
      [ingredient |-> "cup", type |-> "H9", amount |-> 1] }

SeqsUpTo(S, n) == UNION { [1..m -> S] : m \in 1..n }

NoDetails == [x \in {} |-> 0]

\* no response is waiting on the response queue
NoRequest ==
    [fn |-> "none", request |-> [request_id |-> 0, client_type |-> "none"],
     pre |-> <<>>, pre_db |-> <<>>, calls |-> <<>>, evals |-> <<>>,
     result |-> [request_id |-> 0, client_type |-> "none", passed |-> TRUE,
                 details |-> NoDetails, error |-> ""]]

(***************************************************************************)
(* MainValidation.process_update_inventory_request                         *)
(***************************************************************************)
\* "espresso" is coffee_beans, "cup" is cups
IngredientType(ingredient) ==
    IF ingredient = "espresso" THEN "coffee_beans"
    ELSE IF ingredient = "cup" THEN "cups"
    ELSE ingredient

SignedAmountAlwaysNegative(client_type, amount) == -amount

\* the scheduler consumes, every other client adds
SignedAmount(client_type, amount) ==
    IF client_type = "scheduler" THEN -amount ELSE amount

PassedAfterWarningFails(passed, success, warning) ==
    IF ~success \/ warning # "no_warning" THEN FALSE ELSE passed

PassedAfter(passed, success, warning) ==
    IF ~success THEN FALSE ELSE passed

\* result["details"][ingredient_type] after one update
DetailsAfter(details, ingredient_type, subtype, amount, success, warning) ==
    LET entry ==
            IF ~success
            THEN [type |-> subtype, updated_amount |-> 0, status |-> "failed"]
            ELSE IF /\ ingredient_type \in DOMAIN details
                    /\ subtype \in {details[ingredient_type].type,
                                    details[ingredient_type].status}
            THEN [details[ingredient_type] EXCEPT !.updated_amount = @ + amount]
            ELSE [type |-> subtype, updated_amount |-> amount, status |-> warning]
    IN  [x \in DOMAIN details \cup {ingredient_type} |->
            IF x = ingredient_type THEN entry ELSE details[x]]

\* the body of the loop over the ingredients: one update_inventory call
UpdateOne(st, ing, ok, client_type) ==
    LET ingredient_type == IngredientType(ing.ingredient)
        k == <<ingredient_type, ing.type>>
        amount == SignedAmount(client_type, ing.amount)
        u == update_inventory(st.cache, st.store, k, amount, ok)
        call == [key |-> k, amount |-> amount, applied |-> u.applied,
                 success |-> u.success, warning |-> u.warning,
                 old |-> get_current_count(st.cache, st.store, k),
                 old_db |-> get_current_count(st.store, st.store, k),
                 new |-> get_current_count(u.cache, u.store, k),
                 new_db |-> get_current_count(u.store, u.store, k)]
    IN  [cache |-> u.cache,
         store |-> u.store,
         passed |-> PassedAfter(st.passed, u.success, u.warning),
         details |-> DetailsAfter(st.details, ingredient_type, ing.type, amount,
                                  u.success, u.warning),
         calls |-> Append(st.calls, call)]

RECURSIVE UpdateLoop(_, _, _, _, _)
UpdateLoop(st, ingredients, failing, client_type, i) ==
    IF i > Len(ingredients) THEN st
    ELSE UpdateLoop(UpdateOne(st, ingredients[i], i \notin failing, client_type),
                    ingredients, failing, client_type, i + 1)

\* failing: the positions whose store write fails
process_update_inventory_request(client_type, ingredients, failing) ==
    /\ nops < MaxOps
    /\ last = NoRequest
    /\ LET st == UpdateLoop([cache |-> inventory_cache, store |-> db, passed |-> TRUE,
                             details |-> NoDetails, calls |-> <<>>],
                            ingredients, failing, client_type, 1)
       IN  /\ inventory_cache' = st.cache
           /\ db' = st.store
           /\ last' = [fn |-> "update_inventory",
                       request |-> [request_id |-> nops + 1, client_type |-> client_type,
                                    ingredients |-> ingredients],
                       pre |-> inventory_cache,
                       pre_db |-> db,
                       calls |-> st.calls,
                       evals |-> <<>>,
                       result |-> [request_id |-> nops + 1, client_type |-> client_type,
                                   passed |-> st.passed, details |-> st.details,
                                   error |-> ""]]
    /\ nops' = nops + 1
    /\ UNCHANGED <<shot_to_grams, concVars>>

(***************************************************************************)
(* MainValidation.process_pre_check_request                                *)
(***************************************************************************)
\* item["ingredients"]: a dict, in insertion order
ItemChoices ==
    { [drink_name |-> "cappuccino", cup_id |-> "H9",
       ingredients |-> << [ingredient |-> "coffee_beans", type |-> "regular", amount |-> 2],
                          [ingredient |-> "milk", type |-> "whole", amount |-> 2] >>],
      [drink_name |-> "cappuccino", cup_id |-> "H9",
       ingredients |-> << [ingredient |-> "milk", type |-> "whole", amount |-> 2] >>],
      [drink_name |-> "americano", cup_id |-> "H9",
       ingredients |-> << [ingredient |-> "coffee_beans", type |-> "regular", amount |-> 3] >>],
      [drink_name |-> "americano", cup_id |-> "H9",
       ingredients |-> << [ingredient |-> "espresso", type |-> "regular", amount |-> 2] >>] }

HasIngredient(item, name) ==
    \E j \in 1..Len(item.ingredients) : item.ingredients[j].ingredient = name

IngredientNamed(item, name) ==
    item.ingredients[CHOOSE j \in 1..Len(item.ingredients) :
                        item.ingredients[j].ingredient = name]

DebitNever(wc, k, amount, status) == wc

\* current_inventory_cache[type][subtype]["current_amount"] = current_amount - amount,
\* done only for a component that passed
DebitWorkingCopy(wc, k, amount, status) ==
    IF status THEN [wc EXCEPT ![k] = @ - amount] ELSE wc

\* one checked component of an item (its cup or one ingredient)
Component(wc, k, subtype, amount) ==
    [key |-> k, type |-> subtype, current |-> wc[k], needed |-> amount,
     critical_threshold |-> inventory_rules[k].critical_threshold,
     status |-> ~(wc[k] - amount < inventory_rules[k].critical_threshold)]

WithComponent(comps, name, c) ==
    [x \in DOMAIN comps \cup {name} |-> IF x = name THEN c ELSE comps[x]]

\* st: [wc, passed, status, comps, raised]
PreCheckCup(st, item) ==
    LET k == <<"cups", item.cup_id>>
        c == Component(st.wc, k, item.cup_id, 1)
    IN  IF k \notin DOMAIN st.wc THEN st
        ELSE [st EXCEPT !.passed = IF c.status THEN @ ELSE FALSE,
                        !.status = IF c.status THEN @ ELSE FALSE,
                        !.comps = WithComponent(@, "cup", c),
                        !.wc = DebitWorkingCopy(@, k, 1, c.status)]

PreCheckIngredient(st, item, ing) ==
    LET ingredient_type == IF ing.ingredient = "espresso" THEN "coffee_beans"
                           ELSE ing.ingredient
        k == <<ingredient_type, ing.type>>
    IN  IF st.raised \/ ingredient_type \notin CacheTypes THEN st
        ELSE IF ingredient_type = "coffee_beans" /\ ~HasIngredient(item, "coffee_beans")
        THEN [st EXCEPT !.raised = TRUE]   \* KeyError: item["ingredients"]["coffee_beans"]
        ELSE IF k \notin DOMAIN st.wc THEN st
        ELSE LET amount == IF ingredient_type = "coffee_beans"
                           THEN convert_shots_to_grams(
                                    IngredientNamed(item, "coffee_beans").amount)
                           ELSE ing.amount
                 c == Component(st.wc, k, ing.type, amount)
             IN  [st EXCEPT !.passed = IF c.status THEN @ ELSE FALSE,
                            !.status = IF c.status THEN @ ELSE FALSE,
                            !.comps = WithComponent(@, ing.ingredient, c),
                            !.wc = DebitWorkingCopy(@, k, amount, c.status)]

RECURSIVE PreCheckIngredients(_, _, _)
PreCheckIngredients(st, item, j) ==
    IF j > Len(item.ingredients) THEN st
    ELSE PreCheckIngredients(PreCheckIngredient(st, item, item.ingredients[j]), item, j + 1)

\* result["details"][item["drink_name"]] = item_details
DetailsWithItem(details, drink_name, item_details) ==
    [x \in DOMAIN details \cup {drink_name} |->
        IF x = drink_name THEN item_details ELSE details[x]]

\* the body of the loop over the items; acc: [wc, passed, details, evals, raised]
PreCheckItem(acc, item) ==
    LET st == PreCheckIngredients(
                  PreCheckCup([wc |-> acc.wc, passed |-> acc.passed, status |-> TRUE,
                               comps |-> NoDetails, raised |-> FALSE], item),
                  item, 1)
        item_details == [status |-> st.status, comps |-> st.comps]
    IN  IF st.raised
        THEN [acc EXCEPT !.wc = st.wc, !.passed = st.passed, !.raised = TRUE]
        ELSE [wc |-> st.wc, passed |-> st.passed,
              details |-> DetailsWithItem(acc.details, item.drink_name, item_details),
              evals |-> Append(acc.evals, [drink_name |-> item.drink_name,
                                           status |-> st.status, comps |-> st.comps]),
              raised |-> FALSE]

RECURSIVE PreCheckLoop(_, _, _)
PreCheckLoop(acc, items, i) ==
    IF i > Len(items) \/ acc.raised THEN acc
    ELSE PreCheckLoop(PreCheckItem(acc, items[i]), items, i + 1)

\* inventory_cache.copy() copies the outer dict only: the records the working
\* copy holds are the records of the live cache, so what is written to the
\* working copy is written to the live cache
CacheSharedWith(live, wc) == wc

process_pre_check_request(client_type, items) ==
    /\ nops < MaxOps
    /\ last = NoRequest
    /\ LET acc == IF client_type = "scheduler"
                  THEN PreCheckLoop([wc |-> inventory_cache, passed |-> TRUE,
                                     details |-> NoDetails, evals |-> <<>>,
                                     raised |-> FALSE], items, 1)
                  ELSE [wc |-> inventory_cache, passed |-> FALSE, details |-> NoDetails,
                        evals |-> <<>>, raised |-> FALSE]
           error == IF acc.raised THEN "Error processing request"
                    ELSE IF client_type # "scheduler" THEN "Invalid client type"
                    ELSE ""
       IN  /\ inventory_cache' = CacheSharedWith(inventory_cache, acc.wc)
           /\ last' = [fn |-> "pre_check",
                       request |-> [request_id |-> nops + 1, client_type |-> client_type,
                                    items |-> items],
                       pre |-> inventory_cache,
                       pre_db |-> db,
                       calls |-> <<>>,
                       evals |-> acc.evals,
                       result |-> [request_id |-> nops + 1, client_type |-> client_type,
                                   passed |-> IF error = "" THEN acc.passed ELSE FALSE,
                                   details |-> IF error = "" THEN acc.details ELSE NoDetails,
                                   error |-> error]]
    /\ nops' = nops + 1
    /\ UNCHANGED <<db, shot_to_grams, concVars>>

(***************************************************************************)
(* Spec: the handlers, one request per step                                *)
(***************************************************************************)
NoTask ==
    [client_type |-> "none", ingredients |-> <<>>, i |-> 0, current_amount |-> 0,
     new_amount |-> 0, success |-> FALSE, passed |-> TRUE]

NoJob == [pc |-> "none", percentage |-> 0, new_amount |-> 0, success |-> FALSE]

NoHistory ==
    [initial |-> <<>>, sum |-> [k \in Keys |-> 0], other |-> [k \in Keys |-> FALSE],
     foreign |-> [k \in Keys |-> 0]]

\* MainValidation.__init__: _detection_running = False, nobody is in
\* stop_periodic_detection, the pool has no job
NoScheduler == [detection_running |-> FALSE, stop_pc |-> "idle", orphans |-> 0]

\* the queues are empty, the event flags are clear and both workers wait
NoTraffic ==
    [queue |-> <<>>, event |-> FALSE, worker |-> "wait", request |-> 0,
     rqueue |-> <<>>, revent |-> FALSE, rworker |-> "wait", response |-> 0,
     stored |-> {}]

ConcIdle ==
    /\ pc = [r \in 1..MaxReq |-> "idle"]
    /\ running = 0
    /\ task = [r \in 1..MaxReq |-> NoTask]
    /\ det = NoJob
    /\ loop_pc = "stopped"
    /\ hist = NoHistory
    /\ sched = NoScheduler
    /\ chan = NoTraffic

\* InventoryManager.__init__: the cache is loaded from the store
Init ==
    /\ db \in InitialStores
    /\ inventory_cache = db
    /\ shot_to_grams \in ShotTables
    /\ last = NoRequest
    /\ nops = 0
    /\ ConcIdle

UpdateInventory ==
    \E client_type \in ClientTypes, ingredients \in SeqsUpTo(IngredientChoices, MaxIngredients) :
        \E failing \in SUBSET (1..Len(ingredients)) :
            process_update_inventory_request(client_type, ingredients, failing)

\* MainValidation.response_worker: the response is taken off the response queue
\* and handed to the client; the next request is handled after that
response_worker ==
    /\ last # NoRequest
    /\ last' = NoRequest
    /\ UNCHANGED <<inventory_cache, db, shot_to_grams, nops, concVars>>

PreCheck ==
    \E client_type \in ClientTypes, items \in SeqsUpTo(ItemChoices, MaxItems) :
        process_pre_check_request(client_type, items)

Next ==
    \/ UpdateInventory
    \/ PreCheck
    \/ response_worker

Spec == Init /\ [][Next]_vars

(***************************************************************************)
(* SpecConc: the threads of the asyncio service (validation_app2.py).      *)
(* Request handlers are coroutines of the event loop: a handler keeps the  *)
(* event-loop thread until it awaits. The periodic detection loop hands    *)
(* each detection job to a worker thread of the pool, which runs beside    *)
(* the event-loop thread.                                                  *)
(***************************************************************************)
\* update_inventory requests submitted to the service
ConcRequests ==
    { [client_type |-> "scheduler",
       ingredients |-> << [ingredient |-> "espresso", type |-> "regular", amount |-> 2],
                          [ingredient |-> "milk", type |-> "whole", amount |-> 2] >>],
      [client_type |-> "scheduler",
       ingredients |-> << [ingredient |-> "milk", type |-> "whole", amount |-> 2] >>] }

\* what CoffeeBeansDetector.detect_coffee_beans may do: raise, or return a percentage
DetectorResults ==
    { [raised |-> TRUE, percentage |-> 0],
      [raised |-> FALSE, percentage |-> -1],
      [raised |-> FALSE, percentage |-> 50] }

AwaitPointsInUpdate == {"events", "upd_db"}

\* the positions at which a handler coroutine awaits: handle_update_inventory
\* awaits only send_inventory_status_event, after process_update_inventory_request
\* has returned
AwaitPoints == {"events"}

\* the event-loop thread runs task r: r holds it, or it is free and r is ready
CanRun(r) ==
    \/ running = r
    \/ running = 0 /\ pc[r] \in AwaitPoints \cup {"pending"}

\* the event-loop thread after r moved to position p
Yield(r, p) == IF p \in AwaitPoints \cup {"done"} THEN 0 ELSE r

TaskKey(r) ==
    LET ing == task[r].ingredients[task[r].i]
    IN  <<IngredientType(ing.ingredient), ing.type>>

\* RabbitMQClient._handle_request: a message arrives, its handler task is created
Submit(r) ==
    /\ pc[r] = "idle"
    /\ \A q \in 1..(r - 1) : pc[q] # "idle"
    /\ \E req \in ConcRequests :
          task' = [task EXCEPT ![r] = [NoTask EXCEPT !.client_type = req.client_type,
                                                     !.ingredients = req.ingredients]]
    /\ pc' = [pc EXCEPT ![r] = "pending"]
    /\ UNCHANGED <<inventory_cache, db, shot_to_grams, last, nops, running, det, loop_pc, hist, sched,
                   chan>>

\* handle_update_inventory calls process_update_inventory_request
StartHandler(r) ==
    /\ pc[r] = "pending" /\ CanRun(r)
    /\ pc' = [pc EXCEPT ![r] = "upd_read"]
    /\ running' = Yield(r, "upd_read")
    /\ task' = [task EXCEPT ![r].i = 1]
    /\ UNCHANGED <<inventory_cache, db, shot_to_grams, last, nops, det, loop_pc, hist, sched, chan>>

\* update_inventory: current_amount = get_current_count(...); new_amount = current_amount + amount
UpdRead(r) ==
    /\ pc[r] = "upd_read" /\ CanRun(r)
    /\ LET k == TaskKey(r)
           amount == SignedAmount(task[r].client_type, task[r].ingredients[task[r].i].amount)
           current_amount == get_current_count(inventory_cache, db, k)
       IN  task' = [task EXCEPT ![r].current_amount = current_amount,
                                ![r].new_amount = current_amount + AppliedAmount(k, amount)]
    /\ pc' = [pc EXCEPT ![r] = "upd_db"]
    /\ running' = Yield(r, "upd_db")
    /\ UNCHANGED <<inventory_cache, db, shot_to_grams, last, nops, det, loop_pc, hist, sched, chan>>

\* update_inventory: success = self.db_client.update_inventory(...)
UpdDb(r) ==
    /\ pc[r] = "upd_db" /\ CanRun(r)
    /\ \E ok \in BOOLEAN :
          LET w == db_update_inventory(db, TaskKey(r), task[r].new_amount, ok)
          IN  /\ db' = w.store
              /\ task' = [task EXCEPT ![r].success = w.success]
    /\ pc' = [pc EXCEPT ![r] = "upd_cache"]
    /\ running' = Yield(r, "upd_cache")
    /\ UNCHANGED <<inventory_cache, shot_to_grams, last, nops, det, loop_pc, hist, sched, chan>>

\* update_inventory: the cache is written if the store write succeeded and the
\* call returns (its locals are gone); back in the handler, passed is updated
\* and the loop goes to the next ingredient
UpdCache(r) ==
    /\ pc[r] = "upd_cache" /\ CanRun(r)
    /\ LET k == TaskKey(r)
           passed == PassedAfter(task[r].passed, task[r].success, "no_warning")
           more == task[r].i < Len(task[r].ingredients)
           p == IF more THEN "upd_read" ELSE IF passed THEN "events" ELSE "done"
       IN  /\ inventory_cache' = CacheAfterWrite(inventory_cache, k, task[r].new_amount,
                                                 task[r].success)
           /\ hist' = IF task[r].success
                      THEN [hist EXCEPT !.sum[k] = @ + (task[r].new_amount
                                                        - task[r].current_amount)]
                      ELSE hist
           /\ task' = [task EXCEPT ![r].passed = passed,
                                   ![r].i = IF more THEN @ + 1 ELSE 0,
                                   ![r].current_amount = 0,
                                   ![r].new_amount = 0,
                                   ![r].success = FALSE]
           /\ pc' = [pc EXCEPT ![r] = p]
           /\ running' = Yield(r, p)
    /\ UNCHANGED <<db, shot_to_grams, last, nops, det, loop_pc, sched, chan>>

\* handle_update_inventory resumes after the events were sent and returns the result
FinishHandler(r) ==
    /\ pc[r] = "events" /\ CanRun(r)
    /\ pc' = [pc EXCEPT ![r] = "done"]
    /\ running' = Yield(r, "done")
    /\ UNCHANGED <<inventory_cache, db, shot_to_grams, last, nops, task, det, loop_pc, hist, sched, chan>>

\* _periodic_detection_loop: run_in_executor(self._thread_pool, self._run_coffee_beans_detection)
Tick ==
    /\ loop_pc = "tick" /\ running = 0
    /\ det' = [NoJob EXCEPT !.pc = "detect"]
    /\ loop_pc' = "waiting"
    /\ UNCHANGED <<inventory_cache, db, shot_to_grams, last, nops, pc, running, task, hist, sched, chan>>

\* InventoryManager.update_inventory_from_detection(percentage): the amount of
\* coffee_beans/regular becomes the detected share of max_capacity
DetectedAmount(percentage) == (percentage * inventory_rules[CB].max_capacity) \div 100

\* worker thread: cv_result = detect_coffee_beans(); the inventory is updated
\* only if the percentage is > 0
Detect ==
    /\ det.pc = "detect"
    /\ \E res \in DetectorResults :
          det' = IF ~res.raised /\ res.percentage > 0
                 THEN [det EXCEPT !.pc = "det_db", !.percentage = res.percentage,
                                  !.new_amount = DetectedAmount(res.percentage)]
                 ELSE [NoJob EXCEPT !.pc = "finished"]
    /\ UNCHANGED <<inventory_cache, db, shot_to_grams, last, nops, pc, running, task, loop_pc, hist, sched,
                   chan>>

\* update_inventory_from_detection writes the store, then the cache
DetDb ==
    /\ det.pc = "det_db"
    /\ \E ok \in BOOLEAN :
          LET w == db_update_inventory(db, CB, det.new_amount, ok)
          IN  /\ db' = w.store
              /\ det' = [det EXCEPT !.pc = "det_cache", !.success = w.success]
              /\ hist' = IF w.success THEN [hist EXCEPT !.other[CB] = TRUE] ELSE hist
    /\ UNCHANGED <<inventory_cache, shot_to_grams, last, nops, pc, running, task, loop_pc, sched, chan>>

DetCache ==
    /\ det.pc = "det_cache"
    /\ inventory_cache' = CacheAfterWrite(inventory_cache, CB, det.new_amount, det.success)
    /\ det' = [NoJob EXCEPT !.pc = "finished"]
    /\ UNCHANGED <<db, shot_to_grams, last, nops, pc, running, task, loop_pc, hist, sched, chan>>

\* _periodic_detection_loop resumes with the job's result and sleeps
JobDone ==
    /\ loop_pc = "waiting" /\ det.pc = "finished" /\ running = 0
    /\ det' = NoJob
    /\ loop_pc' = "sleeping"
    /\ UNCHANGED <<inventory_cache, db, shot_to_grams, last, nops, pc, running, task, hist, sched, chan>>

\* asyncio.sleep(600) is over
Wake ==
    /\ loop_pc = "sleeping" /\ running = 0
    /\ loop_pc' = "tick"
    /\ UNCHANGED <<inventory_cache, db, shot_to_grams, last, nops, pc, running, task, det, hist, sched,
                   chan>>

\* the service after ValidationServiceApp.start: the cache is loaded and the
\* periodic detection loop is started
InitConc ==
    /\ db \in InitialStores
    /\ inventory_cache = db
    /\ shot_to_grams \in ShotTables
    /\ last = NoRequest
    /\ nops = 0
    /\ pc = [r \in 1..MaxReq |-> "idle"]
    /\ running = 0
    /\ task = [r \in 1..MaxReq |-> NoTask]
    /\ det = NoJob
    /\ loop_pc = "tick"
    /\ hist = [NoHistory EXCEPT !.initial = db]
    /\ sched = [NoScheduler EXCEPT !.detection_running = TRUE]
    /\ chan = NoTraffic

NextConc ==
    \/ \E r \in 1..MaxReq : Submit(r)
    \/ \E r \in 1..MaxReq : StartHandler(r)
    \/ \E r \in 1..MaxReq : UpdRead(r)
    \/ \E r \in 1..MaxReq : UpdDb(r)
    \/ \E r \in 1..MaxReq : UpdCache(r)
    \/ \E r \in 1..MaxReq : FinishHandler(r)
    \/ Tick
    \/ Detect
    \/ DetDb
    \/ DetCache
    \/ JobDone
    \/ Wake

SpecConc == InitConc /\ [][NextConc]_vars

(***************************************************************************)
(* SpecInv: the methods of InventoryManager, one call per step             *)
(***************************************************************************)
Amounts == 1..MaxAmount

\* InventoryManager.validate_inventory(ingredient_type, subtype, amount):
\* converted_amount is assigned for coffee_beans only, and reading it for any
\* other ingredient type raises UnboundLocalError
validate_inventory(cache, store, k, amount) ==
    LET current_amount == get_current_count(cache, store, k)
        converted_amount == convert_shots_to_grams(amount)
        remaining == current_amount - converted_amount
    IN  IF k[1] = "coffee_beans"
        THEN [raised |-> FALSE, converted_amount |-> converted_amount,
              valid |-> ~(remaining < critical_threshold(cache, k))]
        ELSE [raised |-> TRUE, converted_amount |-> 0, valid |-> FALSE]

\* a call of a method of InventoryManager and what it returned
Called(fn, request, calls, result) ==
    [fn |-> fn, request |-> request, pre |-> inventory_cache, pre_db |-> db,
     calls |-> calls, evals |-> <<>>, result |-> result]

ValidateInventory ==
    /\ last = NoRequest
    /\ \E k \in Keys, amount \in Amounts :
          last' = Called("validate_inventory", [key |-> k, amount |-> amount], <<>>,
                         validate_inventory(inventory_cache, db, k, amount))
    /\ UNCHANGED <<inventory_cache, db, shot_to_grams, nops, concVars>>

\* a call of InventoryManager.update_inventory with a signed amount
CallUpdateInventory ==
    /\ nops < MaxOps
    /\ last = NoRequest
    /\ \E k \in Keys, amount \in Amounts, sign \in {-1, 1}, ok \in BOOLEAN :
          LET u == update_inventory(inventory_cache, db, k, sign * amount, ok)
          IN  /\ inventory_cache' = u.cache
              /\ db' = u.store
              /\ last' = Called("update", [key |-> k, amount |-> sign * amount], <<>>,
                                [success |-> u.success, warning |-> u.warning,
                                 applied |-> u.applied])
    /\ nops' = nops + 1
    /\ UNCHANGED <<shot_to_grams, concVars>>

None == "None"

\* the cache in iteration order: ingredient types as __init__ inserts them,
\* subtypes as load_inventory_data inserts them
KeyOrder == <<CB, DECAF, CUP, MILK, SYRUP>>

InScope(k, ingredient_type, subtype) ==
    /\ ingredient_type # None => k[1] = ingredient_type
    /\ subtype # None => k[2] = subtype

\* refill_inventory returns False before its loop for an unknown type, an
\* unknown (type, subtype) and a subtype without a type
ValidScope(cache, ingredient_type, subtype) ==
    IF ingredient_type = None THEN subtype = None
    ELSE IF subtype = None THEN ingredient_type \in CacheTypes
    ELSE <<ingredient_type, subtype>> \in DOMAIN cache

RefillAmountWarning(k) == inventory_rules[k].warning_threshold

\* max_capacity = self.inventory_cache[ing_type][sub]["max_capacity"]
RefillAmount(k) == inventory_rules[k].max_capacity

LoopLeftOnFailure(st) == ~st.overall_success

\* the loops over the types and the subtypes have no break and no return
LoopLeft(st) == FALSE

\* the body of the loop over the subtypes
RefillOne(st, k, ok) ==
    LET max_capacity == RefillAmount(k)
        w == db_update_inventory(st.store, k, max_capacity, ok)
    IN  [cache |-> CacheAfterWrite(st.cache, k, max_capacity, w.success),
         store |-> w.store,
         overall_success |-> st.overall_success /\ w.success,
         attempted |-> st.attempted \cup {k}]

RECURSIVE RefillLoop(_, _, _, _, _)
RefillLoop(st, ingredient_type, subtype, failing, i) ==
    IF i > Len(KeyOrder) \/ LoopLeft(st) THEN st
    ELSE LET k == KeyOrder[i]
         IN  RefillLoop(IF k \in DOMAIN st.cache /\ InScope(k, ingredient_type, subtype)
                        THEN RefillOne(st, k, k \notin failing)
                        ELSE st,
                        ingredient_type, subtype, failing, i + 1)

\* InventoryManager.refill_inventory(ingredient_type, subtype); failing: the
\* keys whose store write fails
refill_inventory(cache, store, ingredient_type, subtype, failing) ==
    LET st0 == [cache |-> cache, store |-> store, overall_success |-> TRUE,
                attempted |-> {}]
    IN  IF ~ValidScope(cache, ingredient_type, subtype)
        THEN [st0 EXCEPT !.overall_success = FALSE]
        ELSE RefillLoop(st0, ingredient_type, subtype, failing, 1)

RefillScopes ==
    {<<None, None>>, <<None, "whole">>, <<"milk", "oat">>, <<"tea", None>>}
        \cup {<<t, None>> : t \in CacheTypes}
        \cup Keys

RefillInventory ==
    /\ nops < MaxOps
    /\ last = NoRequest
    /\ \E scope \in RefillScopes :
       \E failing \in SUBSET {k \in Keys : InScope(k, scope[1], scope[2])} :
          LET r == refill_inventory(inventory_cache, db, scope[1], scope[2], failing)
          IN  /\ inventory_cache' = r.cache
              /\ db' = r.store
              /\ last' = Called("refill_inventory",
                                [ingredient_type |-> scope[1], subtype |-> scope[2],
                                 failing |-> failing],
                                <<>>,
                                [success |-> r.overall_success, attempted |-> r.attempted])
    /\ nops' = nops + 1
    /\ UNCHANGED <<shot_to_grams, concVars>>

\* int(x) for the quotient x = a / b, b > 0: the fraction is dropped
TruncDiv(a, b) == IF a >= 0 THEN a \div b ELSE -((-a) \div b)

\* <<n, d>> for which the double (n / d) * 100 is just below the whole number
\* n * 100 / d, so that int() gives one less (in magnitude, for -n as well)
FloatShortfall ==
    { <<46, 40>>, <<82, 40>>, <<92, 40>>, <<102, 40>>, <<164, 40>>, <<174, 40>>,
      <<184, 40>>, <<194, 40>>, <<204, 40>>,
      <<58, 200>>, <<114, 200>>, <<116, 200>>, <<226, 200>>, <<228, 200>>,
      <<230, 200>>, <<232, 200>> }

Abs(n) == IF n < 0 THEN -n ELSE n

\* int(((current_amount - critical_threshold) / max_capacity) * 100) if max_capacity > 0 else 0
Percentage(k, current_amount) ==
    LET n == current_amount - inventory_rules[k].critical_threshold
        d == inventory_rules[k].max_capacity
        exact == TruncDiv(n * 100, d)
    IN  IF d > 0
        THEN (IF <<Abs(n), d>> \in FloatShortfall
              THEN (IF n > 0 THEN exact - 1 ELSE exact + 1)
              ELSE exact)
        ELSE 0

StatusOf(percentage) ==
    IF percentage >= 66 THEN "high"
    ELSE IF percentage >= 33 THEN "medium"
    ELSE IF percentage >= 0 THEN "low"
    ELSE "empty"

\* the keys get_inventory_status reports for its arguments
StatusScope(cache, ingredient_type, subtype) ==
    IF /\ ingredient_type # None
       /\ \/ ingredient_type \notin CacheTypes
          \/ subtype # None /\ <<ingredient_type, subtype>> \notin DOMAIN cache
    THEN {}
    ELSE {k \in DOMAIN cache : InScope(k, ingredient_type, subtype)}

\* InventoryManager.get_inventory_status(ingredient_type, subtype)
get_inventory_status(cache, ingredient_type, subtype) ==
    [k \in StatusScope(cache, ingredient_type, subtype) |->
        [percentage |-> Percentage(k, cache[k]),
         amount |-> cache[k],
         status |-> StatusOf(Percentage(k, cache[k]))]]

\* InventoryManager.get_inventory_stock_level_stats()
get_inventory_stock_level_stats(cache) ==
    LET count(st) == Cardinality({k \in DOMAIN cache : StatusOf(Percentage(k, cache[k])) = st})
    IN  [high |-> count("high"), medium |-> count("medium"), low |-> count("low"),
         empty |-> count("empty"), total |-> Cardinality(DOMAIN cache)]

GetInventoryStatus ==
    /\ last = NoRequest
    /\ \E scope \in RefillScopes :
          last' = Called("get_inventory_status",
                         [ingredient_type |-> scope[1], subtype |-> scope[2]], <<>>,
                         get_inventory_status(inventory_cache, scope[1], scope[2]))
    /\ UNCHANGED <<inventory_cache, db, shot_to_grams, nops, concVars>>

GetStockLevelStats ==
    /\ last = NoRequest
    /\ last' = Called("get_inventory_stock_level_stats", <<>>, <<>>,
                      get_inventory_stock_level_stats(inventory_cache))
    /\ UNCHANGED <<inventory_cache, db, shot_to_grams, nops, concVars>>

\* the subtypes of a type, in iteration order
SubtypesOf(cache, ingredient_type) ==
    SelectSeq(KeyOrder, LAMBDA k : k \in DOMAIN cache /\ k[1] = ingredient_type)

\* the loop over the subtypes of one type: the lowest percentage so far starts
\* at 100 and a subtype replaces it only with a strictly lower one
RECURSIVE Lowest(_, _, _, _)
Lowest(cache, subtypes, i, low) ==
    IF i > Len(subtypes) THEN low
    ELSE LET percentage == Percentage(subtypes[i], cache[subtypes[i]])
         IN  Lowest(cache, subtypes, i + 1,
                    IF percentage < low.percentage
                    THEN [percentage |-> percentage, subtype |-> subtypes[i][2], found |-> TRUE]
                    ELSE low)

\* InventoryManager.get_category_summary(): items_count is stored into the
\* entry of the type, which exists only if a lowest subtype was found
\* (KeyError otherwise)
get_category_summary(cache) ==
    LET low(t) == Lowest(cache, SubtypesOf(cache, t), 1,
                         [percentage |-> 100, subtype |-> None, found |-> FALSE])
    IN  [raised |-> \E t \in CacheTypes : ~low(t).found,
         summary |-> [t \in {x \in CacheTypes : low(x).found} |->
                        [lowest_subtype |-> low(t).subtype,
                         percentage |-> low(t).percentage,
                         amount |-> cache[<<t, low(t).subtype>>],
                         status |-> StatusOf(low(t).percentage),
                         items_count |-> Len(SubtypesOf(cache, t))]]]

GetCategorySummary ==
    /\ last = NoRequest
    /\ last' = Called("get_category_summary", <<>>, <<>>,
                      get_category_summary(inventory_cache))
    /\ UNCHANGED <<inventory_cache, db, shot_to_grams, nops, concVars>>

\* the caller has the returned value
Return ==
    /\ last # NoRequest
    /\ last' = NoRequest
    /\ UNCHANGED <<inventory_cache, db, shot_to_grams, nops, concVars>>

NextInv ==
    \/ ValidateInventory
    \/ CallUpdateInventory
    \/ RefillInventory
    \/ GetInventoryStatus
    \/ GetStockLevelStats
    \/ GetCategorySummary
    \/ Return

SpecInv == Init /\ [][NextInv]_vars

(***************************************************************************)
(* Properties of the handlers (checked under Spec)                         *)
(***************************************************************************)
IsPreCheck == last.fn = "pre_check"
IsUpdate == last.fn = "update_inventory"
Calls == 1..Len(last.calls)
Evals == 1..Len(last.evals)

\* C4: a pre_check request leaves the current_amount of every key of the live
\* cache as it was before the call, whatever its outcome.
C4_PreCheckLeavesCache ==
    IsPreCheck => inventory_cache = last.pre

\* C5: result.passed of a scheduler pre_check is true iff every item of the
\* batch passes; every item is evaluated, also after a failed one, and has its
\* own status flag in the response.
C5_PassedIffEveryItemPasses ==
    (IsPreCheck /\ last.request.client_type = "scheduler") =>
        /\ Len(last.evals) = Len(last.request.items)
        /\ last.result.passed <=> (\A i \in Evals : last.evals[i].status)
        /\ \A i \in Evals :
              /\ last.evals[i].drink_name \in DOMAIN last.result.details
              /\ last.result.details[last.evals[i].drink_name].status
                    = last.evals[i].status

\* what the passing components of the items before item i need of key k
RECURSIVE NeededBefore(_, _)
NeededBefore(i, k) ==
    IF i <= 1 THEN 0
    ELSE LET comps == last.evals[i - 1].comps
             hit == {n \in DOMAIN comps : comps[n].key = k /\ comps[n].status}
         IN  NeededBefore(i - 1, k)
             + (IF hit = {} THEN 0 ELSE comps[CHOOSE n \in hit : TRUE].needed)

\* C6: pre_check checks the items in input order against the amounts already
\* debited by the earlier items of the request (one cup per item, and each
\* ingredient's amount): the amount a component is checked against is the
\* amount at the start of the request less what the earlier passing components
\* need, and the component passes iff that leaves at least critical_threshold.
C6_CumulativeProjection ==
    IsPreCheck =>
        \A i \in Evals : \A n \in DOMAIN last.evals[i].comps :
            LET c == last.evals[i].comps[n] IN
            /\ c.current = last.pre[c.key] - NeededBefore(i, c.key)
            /\ n = "cup" => c.needed = 1
            /\ c.status <=> (c.current - c.needed
                                >= inventory_rules[c.key].critical_threshold)

\* two items that each fit alone (against the amount at the start) but not
\* together: the first passes on the key, the second does not
C6_Witness ==
    /\ IsPreCheck
    /\ Len(last.evals) = 2
    /\ \E n1 \in DOMAIN last.evals[1].comps, n2 \in DOMAIN last.evals[2].comps :
          LET c1 == last.evals[1].comps[n1]
              c2 == last.evals[2].comps[n2]
          IN  /\ c1.key = c2.key
              /\ last.pre[c1.key] - c1.needed >= c1.critical_threshold
              /\ last.pre[c2.key] - c2.needed >= c2.critical_threshold
              /\ c1.status /\ ~c2.status

\* C7 as stated: update changes the cache only if the store write succeeds; on
\* failure it returns success=false and the cached and the stored amount are
\* unchanged; on success the cached amount is the old amount plus signed_amount.
C7_UpdateAddsSignedAmount ==
    \A i \in Calls : LET c == last.calls[i] IN
        /\ ~c.success => (c.new = c.old /\ c.new_db = c.old_db)
        /\ c.success => c.new = c.old + c.amount

\* C7 amended: as C7, where on success the cached (and stored) amount is the
\* old amount plus the amount applied: signed_amount, except for coffee_beans,
\* whose signed_amount counts shots and is converted to grams first.
C7_UpdateAddsAppliedAmount ==
    \A i \in Calls : LET c == last.calls[i] IN
        /\ ~c.success => (c.new = c.old /\ c.new_db = c.old_db)
        /\ c.success =>
              /\ c.new = c.old + (IF c.key[1] = "coffee_beans"
                                  THEN convert_shots_to_grams(c.amount)
                                  ELSE c.amount)
              /\ c.new_db = c.new

\* a failed store write and a successful update of coffee beans in one request
C7_Witness ==
    /\ IsUpdate
    /\ \E i \in Calls : ~last.calls[i].success
    /\ \E i \in Calls : last.calls[i].success /\ last.calls[i].key = CB

C9_PassedIffAllPersisted ==
    IsUpdate =>
        /\ Len(last.calls) = Len(last.request.ingredients)
        /\ ~last.result.passed <=> (\E i \in Calls : ~last.calls[i].success)

\* the update after a failed one is applied and reports a critical level: passed
\* is false because of the failed one only
C9_Witness ==
    /\ IsUpdate /\ ~last.result.passed
    /\ \E i, j \in Calls : /\ i < j /\ ~last.calls[i].success /\ last.calls[j].success
                           /\ last.calls[j].new # last.calls[j].old
                           /\ last.calls[j].warning = "critical"

Requests == 1..MaxReq

\* request r is inside update_inventory, between reading the current amount
\* and writing the cache
InUpdate(r) == pc[r] \in {"upd_db", "upd_cache"}

\* request r is inside process_update_inventory_request
InHandler(r) == pc[r] \in {"upd_read", "upd_db", "upd_cache"}

\* the detection job is inside update_inventory_from_detection
DetectorWriting == det.pc \in {"det_db", "det_cache"}

\* C1: the detection job never writes coffee_beans/regular while a request
\* handler is between its read and its write of the same cache entry
C1_DetectorNeverOverlapsRequest ==
    ~(DetectorWriting /\ \E r \in Requests : InUpdate(r) /\ TaskKey(r) = CB)

\* C2: at most one request is inside a mutating handler at a time; the
\* per-ingredient updates of two requests are never interleaved
C2_OneHandlerAtATime ==
    \A r, q \in Requests : InHandler(r) /\ InHandler(q) => r = q

\* two requests are in flight, one inside its handler and the other one waiting
\* for the event loop after the first one has already updated an ingredient
C2_Witness ==
    \E r, q \in Requests : /\ r # q
                           /\ InHandler(r) /\ task[r].i = 2
                           /\ pc[q] = "pending"

IsValidate == last.fn = "validate_inventory"

\* the grams (or units) a request for amount of key k takes
Needed(k, amount) ==
    IF k[1] = "coffee_beans"
    THEN (IF amount \in DOMAIN shot_to_grams THEN shot_to_grams[amount] ELSE amount * 9)
    ELSE amount

\* C11: validate returns false iff current_amount minus the (converted) amount
\* is strictly below critical_threshold, for every ingredient type: it returns
\* a verdict for coffee_beans, cups and milk alike.
C11_ValidateIffAboveCritical ==
    IsValidate =>
        LET k == last.request.key
            remaining == last.pre[k] - Needed(k, last.request.amount)
        IN  /\ ~last.result.raised
            /\ last.result.valid <=> ~(remaining < inventory_rules[k].critical_threshold)

\* C12: convert_shots_to_grams returns the table's entry for the shot count
\* when there is one and shots * 9 otherwise, and only coffee_beans amounts are
\* converted: validate debits the converted amount for coffee_beans, and update
\* adds the converted amount for coffee_beans and the plain amount otherwise.
C12_ShotsConvertedForCoffeeOnly ==
    /\ (IsValidate /\ last.request.key[1] = "coffee_beans") =>
          /\ last.result.converted_amount
                = Needed(last.request.key, last.request.amount)
          /\ last.result.valid <=>
                last.pre[last.request.key] - last.result.converted_amount
                    >= inventory_rules[last.request.key].critical_threshold
    /\ last.fn = "update" =>
          last.result.applied =
              (IF last.request.key[1] = "coffee_beans"
               THEN (IF last.request.amount \in DOMAIN shot_to_grams
                     THEN shot_to_grams[last.request.amount]
                     ELSE last.request.amount * 9)
               ELSE last.request.amount)

\* 3 shots with no table entry for 3 debit 27 g and are valid
C12_Witness ==
    /\ IsValidate
    /\ last.request.key = CB /\ last.request.amount = 3
    /\ 3 \notin DOMAIN shot_to_grams
    /\ last.result.converted_amount = 27
    /\ last.result.valid

IsRefill == last.fn = "refill_inventory"

\* the keys a refill request names: all, those of a type, or one key
RefillScope ==
    IF last.request.ingredient_type = None /\ last.request.subtype # None THEN {}
    ELSE {k \in Keys : /\ last.request.ingredient_type \in {None, k[1]}
                       /\ last.request.subtype \in {None, k[2]}}

\* C13: refill over a scope with several subtypes attempts every subtype of the
\* scope; each subtype whose store write succeeds ends at max_capacity, each
\* whose write fails keeps its amount, and the returned flag is the AND of the
\* per-subtype results.
C13_RefillAttemptsEverySubtype ==
    (IsRefill /\ RefillScope # {}) =>
        /\ last.result.attempted = RefillScope
        /\ \A k \in RefillScope :
              IF k \in last.request.failing
              THEN inventory_cache[k] = last.pre[k] /\ db[k] = last.pre_db[k]
              ELSE /\ inventory_cache[k] = inventory_rules[k].max_capacity
                   /\ db[k] = inventory_rules[k].max_capacity
        /\ \A k \in Keys \ RefillScope :
              inventory_cache[k] = last.pre[k] /\ db[k] = last.pre_db[k]
        /\ last.result.success <=> (last.request.failing = {})

\* the write of the first subtype of coffee_beans fails and the second subtype
\* is refilled from a lower amount
C13_Witness ==
    /\ IsRefill
    /\ last.request.ingredient_type = "coffee_beans" /\ last.request.subtype = None
    /\ last.request.failing = {CB}
    /\ last.pre[DECAF] < inventory_rules[DECAF].max_capacity
    /\ inventory_cache[DECAF] = inventory_rules[DECAF].max_capacity
    /\ ~last.result.success

IsRefillOfKey ==
    /\ IsRefill
    /\ <<last.request.ingredient_type, last.request.subtype>> \in Keys

RefilledKey == <<last.request.ingredient_type, last.request.subtype>>

\* C14 as stated: after refill(type, subtype) on a known (type, subtype),
\* get_current_count(type, subtype) returns that record's max_capacity.
C14_RefillThenCountIsMax ==
    IsRefillOfKey =>
        get_current_count(inventory_cache, db, RefilledKey)
            = inventory_rules[RefilledKey].max_capacity

\* C14 amended: after a refill(type, subtype) on a known (type, subtype) that
\* returns true, get_current_count(type, subtype) returns that record's
\* max_capacity, whatever the amount was before; after one that returns false
\* it returns the amount as it was before.
C14_SuccessfulRefillThenCountIsMax ==
    IsRefillOfKey =>
        get_current_count(inventory_cache, db, RefilledKey)
            = (IF last.result.success
               THEN inventory_rules[RefilledKey].max_capacity
               ELSE last.pre[RefilledKey])

\* a successful refill of a key that was below its critical threshold
C14_Witness ==
    /\ IsRefillOfKey
    /\ last.result.success
    /\ last.pre[RefilledKey] < inventory_rules[RefilledKey].critical_threshold
    /\ get_current_count(inventory_cache, db, RefilledKey)
          = inventory_rules[RefilledKey].max_capacity

\* floor(((current_amount - critical_threshold) / max_capacity) * 100)
FloorPercentage(k, current_amount) ==
    ((current_amount - inventory_rules[k].critical_threshold) * 100)
        \div inventory_rules[k].max_capacity

Bucket(percentage) ==
    IF percentage >= 66 THEN "high"
    ELSE IF percentage >= 33 THEN "medium"
    ELSE IF percentage >= 0 THEN "low"
    ELSE "empty"

\* C15: get_status reports percentage = floor(((current_amount -
\* critical_threshold) / max_capacity) * 100) and its bucket high / medium /
\* low / empty; every record whose current_amount is below its
\* critical_threshold has a negative percentage and status "empty", and the
\* stock level statistics count it as empty.
C15_PercentageIsFloor ==
    /\ last.fn = "get_inventory_status" =>
          \A k \in DOMAIN last.result :
              /\ last.result[k].percentage = FloorPercentage(k, last.pre[k])
              /\ last.result[k].status = Bucket(last.result[k].percentage)
              /\ last.pre[k] < inventory_rules[k].critical_threshold =>
                    /\ last.result[k].percentage < 0
                    /\ last.result[k].status = "empty"
    /\ last.fn = "get_inventory_stock_level_stats" =>
          last.result.empty
              = Cardinality({k \in Keys : last.pre[k] < inventory_rules[k].critical_threshold})

KeysOfType(t) == {k \in Keys : k[1] = t}

\* C17: get_category_summary returns, for every ingredient_type, the subtype
\* whose percentage is the minimum over the subtypes of the type, that minimum
\* percentage, and items_count equal to the number of subtypes of the type.
C17_SummaryHasLowestSubtype ==
    last.fn = "get_category_summary" =>
        /\ ~last.result.raised
        /\ \A t \in CacheTypes :
              /\ t \in DOMAIN last.result.summary
              /\ LET e == last.result.summary[t]
                     p(k) == Percentage(k, last.pre[k])
                 IN  /\ <<t, e.lowest_subtype>> \in KeysOfType(t)
                     /\ e.percentage = p(<<t, e.lowest_subtype>>)
                     /\ \A k \in KeysOfType(t) : e.percentage <= p(k)
                     /\ e.items_count = Cardinality(KeysOfType(t))

(***************************************************************************)
(* SpecCoord: the coordinators that take a request, dispatch it on its     *)
(* function_name and emit the response: MainValidation.request_worker,     *)
(* ValidationServiceApp.process_message (src/validation_app.py) and        *)
(* RabbitMQClient._handle_request with the wrappers of validation_app2.py. *)
(* One request is taken, handled and answered per step.                    *)
(***************************************************************************)
NoId == 0            \* the message has no "request_id" key
GeneratedId == -1    \* the "async-<timestamp>" id a wrapper of validation_app2.py makes up

NoPayload == [x \in {} |-> 0]

\* ValidationServiceApp.output_queues
output_queues ==
    [scheduler |-> "scheduler_response_queue", dashboard |-> "dashboard_response_queue"]

\* client_type of a message: one of the enumeration, or absent
RequestClients == ClientTypes \cup {"api_bridge", None}

Coordinators == {"request_worker", "process_message", "handle_request"}

FunctionNames ==
    {"update_inventory", "pre_check", "ingredient_status", "inventory_status",
     "category_info", "category_summary", "category_count", "stock_level",
     "invalid_function"}

\* the handler a coordinator runs for a function_name ("no_handler": no branch
\* and no registered handler for it)
Dispatch(coordinator, function_name) ==
    CASE coordinator = "request_worker" ->
            IF function_name = "update_inventory" THEN "process_update_inventory_request"
            ELSE IF function_name \in {"ingredient_status", "pre_check"}
                 THEN "process_ingredient_status_request"
            ELSE "no_handler"
      [] coordinator = "process_message" ->
            IF function_name = "update_inventory" THEN "process_update_inventory_request"
            ELSE IF function_name = "pre_check" THEN "process_pre_check_request"
            ELSE IF function_name = "ingredient_status"
                 THEN "process_ingredient_status_request"
            ELSE "no_handler"
      [] OTHER ->
            IF function_name = "inventory_status" THEN "process_ingredient_status_request"
            ELSE IF function_name = "category_summary" THEN "process_category_summary_request"
            ELSE IF function_name = "stock_level" THEN "process_stock_level_request"
            ELSE IF function_name = "category_count" THEN "process_category_count_request"
            ELSE IF function_name = "category_info" THEN "process_category_info_request"
            ELSE "no_handler"

ReadHandlers ==
    {"process_ingredient_status_request", "process_category_summary_request",
     "process_stock_level_request", "process_category_count_request",
     "process_category_info_request"}

\* payload["request_id"] and payload["client_type"] can both be read
Envelope(rq) == rq.request_id # NoId /\ rq.client_type # None

ResponseTo(rq, passed, details, error) ==
    [request_id |-> rq.request_id, client_type |-> rq.client_type, passed |-> passed,
     details |-> details, error |-> error]

NoResult == NoRequest.result

\* what a handler leaves behind: the cache and the store, whether it returned a
\* result or let an exception escape, whether its try block raised, the result
\* and what it put on _response_queue
Outcome(cache, store, returned, raised, result, queued) ==
    [cache |-> cache, store |-> store, returned |-> returned, raised |-> raised,
     result |-> result, queued |-> queued]

\* the except block of every handler builds error_result from
\* payload["request_id"] and payload["client_type"]: when one of the keys is
\* absent the KeyError of the try block is followed by a KeyError in the except
\* block, which leaves the handler
Caught(rq, cache, store, message) ==
    IF Envelope(rq)
    THEN LET error_result == ResponseTo(rq, FALSE, NoDetails, message)
         IN  Outcome(cache, store, TRUE, TRUE, error_result, <<error_result>>)
    ELSE Outcome(cache, store, FALSE, TRUE, NoResult, <<>>)

\* a handler that reads and answers: read is [raised, value]; put tells
\* whether the success path puts final_result on _response_queue
ReadOutcome(rq, cache, store, read, put) ==
    IF read.raised \/ ~Envelope(rq)
    THEN Caught(rq, cache, store, "Error processing request")
    ELSE LET final_result == ResponseTo(rq, TRUE, read.value, "")
         IN  Outcome(cache, store, TRUE, FALSE, final_result,
                     IF put THEN <<final_result>> ELSE <<>>)

\* payload.get("payload", {}).get(name, None)
PayloadGet(rq, name) ==
    IF name \in DOMAIN rq.payload THEN rq.payload[name] ELSE None

CacheAfterReadDropsCups(cache) == [cache EXCEPT ![CUP] = 0]

\* the cache after a handler that only reads it
CacheAfterRead(cache) == cache

process_ingredient_status_request(rq, cache, store) ==
    ReadOutcome(rq, CacheAfterRead(cache), store,
                [raised |-> FALSE,
                 value |-> get_inventory_status(cache, PayloadGet(rq, "ingredient_type"),
                                                PayloadGet(rq, "subtype"))],
                TRUE)

\* what get_category_summary gave: the summary, or the KeyError it raised
SummaryRead(s) == [raised |-> s.raised, value |-> s.summary]

process_category_summary_request(rq, cache, store) ==
    ReadOutcome(rq, CacheAfterRead(cache), store, SummaryRead(get_category_summary(cache)),
                TRUE)

process_stock_level_request(rq, cache, store) ==
    ReadOutcome(rq, CacheAfterRead(cache), store,
                [raised |-> FALSE, value |-> get_inventory_stock_level_stats(cache)],
                TRUE)

\* InventoryManager.get_category_count(): the number of subtypes of every type
get_category_count(cache) ==
    [t \in CacheTypes |-> Cardinality({k \in DOMAIN cache : k[1] = t})]

\* InventoryManager.get_inventory_category_info(): the subtypes of every type
get_inventory_category_info(cache) ==
    [t \in CacheTypes |-> {k[2] : k \in {x \in DOMAIN cache : x[1] = t}}]

process_category_count_request(rq, cache, store) ==
    ReadOutcome(rq, CacheAfterRead(cache), store,
                [raised |-> FALSE, value |-> get_category_count(cache)], TRUE)

\* the success path returns final_result without putting it on _response_queue
process_category_info_request(rq, cache, store) ==
    ReadOutcome(rq, CacheAfterRead(cache), store,
                [raised |-> FALSE, value |-> get_inventory_category_info(cache)], FALSE)

\* the result of process_update_inventory_request once its loop has ended in st
UpdateAnswer(rq, st) ==
    Outcome(st.cache, st.store, TRUE, FALSE, ResponseTo(rq, st.passed, st.details, ""),
            <<ResponseTo(rq, st.passed, st.details, "")>>)

\* process_update_inventory_request as a function of the message: request_id
\* and client_type are read first, payload["payload"]["ingredients"] next
UpdateOutcome(rq, cache, store, failing) ==
    IF ~Envelope(rq) THEN Caught(rq, cache, store, "'request_id'")
    ELSE IF "ingredients" \notin DOMAIN rq.payload
    THEN Caught(rq, cache, store, "'ingredients'")
    ELSE UpdateAnswer(rq, UpdateLoop([cache |-> cache, store |-> store, passed |-> TRUE,
                                      details |-> NoDetails, calls |-> <<>>],
                                     rq.payload.ingredients, failing, rq.client_type, 1))

\* the result of process_pre_check_request once its loop has ended in acc
PreCheckAnswer(rq, cache, store, acc) ==
    IF acc.raised
    THEN Caught(rq, CacheSharedWith(cache, acc.wc), store, "Error processing request")
    ELSE Outcome(CacheSharedWith(cache, acc.wc), store, TRUE, FALSE,
                 ResponseTo(rq, acc.passed, acc.details, ""),
                 <<ResponseTo(rq, acc.passed, acc.details, "")>>)

\* process_pre_check_request as a function of the message
PreCheckOutcome(rq, cache, store) ==
    IF ~Envelope(rq) THEN Caught(rq, cache, store, "Error processing request")
    ELSE IF rq.client_type # "scheduler"
    THEN Outcome(cache, store, TRUE, FALSE,
                 ResponseTo(rq, FALSE, NoDetails, "Invalid client type"),
                 <<ResponseTo(rq, FALSE, NoDetails, "Invalid client type")>>)
    ELSE IF "items" \notin DOMAIN rq.payload
    THEN Caught(rq, cache, store, "Error processing request")
    ELSE PreCheckAnswer(rq, cache, store,
                        PreCheckLoop([wc |-> cache, passed |-> TRUE, details |-> NoDetails,
                                      evals |-> <<>>, raised |-> FALSE], rq.payload.items, 1))

Delivery(queue, response) == [queue |-> queue, response |-> response]

\* ValidationServiceApp.send_response: a response without client_type, or with
\* a client_type that has no output queue, is logged and not published
send_response(response) ==
    IF response.client_type \in DOMAIN output_queues
    THEN <<Delivery(output_queues[response.client_type], response)>>
    ELSE <<>>

UnknownFunction(function_name) == "Unknown function: " \o function_name

\* what the response path carries of the results put on _response_queue
Queued(h) ==
    [h |-> h, sent |-> [i \in 1..Len(h.queued) |-> Delivery("_response_queue", h.queued[i])]]

\* MainValidation.request_worker: an unknown function_name is logged; what the
\* handlers put on _response_queue is what the response path carries
request_worker(rq, cache, store, failing) ==
    Queued(IF rq.function_name = "update_inventory"
           THEN UpdateOutcome(rq, cache, store, failing)
           ELSE IF rq.function_name \in {"ingredient_status", "pre_check"}
           THEN process_ingredient_status_request(rq, cache, store)
           ELSE Outcome(cache, store, FALSE, FALSE, NoResult, <<>>))

\* the end of process_message: the result goes to send_response; an exception
\* that left the handler is logged and the message is rejected
Published(h) == [h |-> h, sent |-> IF h.returned THEN send_response(h.result) ELSE <<>>]

\* ValidationServiceApp.process_message
process_message(rq, cache, store, failing) ==
    Published(IF rq.function_name = "update_inventory"
              THEN UpdateOutcome(rq, cache, store, failing)
              ELSE IF rq.function_name = "pre_check"
              THEN PreCheckOutcome(rq, cache, store)
              ELSE IF rq.function_name = "ingredient_status"
              THEN process_ingredient_status_request(rq, cache, store)
              ELSE Outcome(cache, store, TRUE, FALSE,
                           ResponseTo(rq, FALSE, NoDetails,
                                      UnknownFunction(rq.function_name)),
                           <<>>))

\* the request_data a wrapper of validation_app2.py builds for a reading handler
request_data(rq) ==
    [rq EXCEPT !.request_id = IF rq.request_id = NoId THEN GeneratedId ELSE rq.request_id,
               !.client_type = "api_bridge"]

\* the handlers registered by ValidationService.register_handlers that read
RegisteredRead(handler, rq, cache, store) ==
    CASE handler = "process_ingredient_status_request" ->
            process_ingredient_status_request(rq, cache, store)
      [] handler = "process_category_summary_request" ->
            process_category_summary_request(rq, cache, store)
      [] handler = "process_stock_level_request" ->
            process_stock_level_request(rq, cache, store)
      [] handler = "process_category_count_request" ->
            process_category_count_request(rq, cache, store)
      [] OTHER -> process_category_info_request(rq, cache, store)

\* the reply of _handle_request
Replied(h) == [h |-> h, sent |-> <<Delivery("reply_to", h.result)>>]

\* RabbitMQClient._handle_request with the wrappers of validation_app2.py, for
\* a message that names a reply_to queue: the result of the registered handler,
\* or the answer to an action without handler, is published to reply_to
handle_request(rq, cache, store) ==
    Replied(IF Dispatch("handle_request", rq.function_name) = "no_handler"
            THEN Outcome(cache, store, TRUE, FALSE,
                         [request_id |-> NoId, client_type |-> None, passed |-> FALSE,
                          details |-> NoDetails,
                          error |-> "No handler for action: " \o rq.function_name],
                         <<>>)
            ELSE RegisteredRead(Dispatch("handle_request", rq.function_name),
                                request_data(rq), cache, store))

\* payloads of the messages
UpdatePayloads == {[ingredients |-> <<c>>] : c \in IngredientChoices}
PreCheckPayloads == {[items |-> <<c>>] : c \in ItemChoices}
StatusPayloads ==
    {[ingredient_type |-> "milk"], [ingredient_type |-> "coffee_beans", subtype |-> "decaf"],
     [ingredient_type |-> "tea"]}

PayloadsOf(function_name) ==
    {NoPayload} \cup
        (CASE function_name = "update_inventory" -> UpdatePayloads
           [] function_name = "pre_check" -> PreCheckPayloads
           [] function_name \in {"ingredient_status", "inventory_status"} -> StatusPayloads
           [] OTHER -> {})

\* the function_names the clients of a coordinator send to it: the ones it
\* has a branch or a handler for, a reading one it has none for, and the
\* unknown one of validation_tester.py
SentTo(coordinator) ==
    IF coordinator = "handle_request"
    THEN FunctionNames \ {"update_inventory", "pre_check"}
    ELSE {"update_inventory", "pre_check", "ingredient_status", "category_info",
          "invalid_function"}

\* request_id and client_type of a message: both present, or one of them absent
Envelopes ==
    {<<1, client_type>> : client_type \in RequestClients \ {None}}
        \cup {<<NoId, "scheduler">>, <<1, None>>}

Messages(coordinator) ==
    UNION { { [request_id |-> e[1], client_type |-> e[2], function_name |-> f,
               payload |-> p] :
              e \in Envelopes, p \in PayloadsOf(f) } :
            f \in SentTo(coordinator) }

\* the positions of the ingredients of a message whose store write fails
Failing(rq) ==
    IF "ingredients" \in DOMAIN rq.payload THEN SUBSET (1..Len(rq.payload.ingredients))
    ELSE {{}}

\* a coordinator takes a message when the response of the last one has left,
\* or when the client sends the message it sent last once more before that
Accepts(coordinator, rq, failing) ==
    \/ last = NoRequest
    \/ /\ last # NoRequest
       /\ last.previous = <<>>
       /\ last.coordinator = coordinator
       /\ last.request = rq
       /\ last.failing = failing

\* one message taken by a coordinator, handled and answered (r)
Taken(coordinator, rq, failing, r) ==
    /\ nops < MaxOps \/ (r.h.cache = inventory_cache /\ r.h.store = db)
    /\ inventory_cache' = r.h.cache
    /\ db' = r.h.store
    /\ nops' = IF r.h.cache = inventory_cache /\ r.h.store = db THEN nops ELSE nops + 1
    /\ last' = [fn |-> Dispatch(coordinator, rq.function_name), request |-> rq,
                pre |-> inventory_cache, pre_db |-> db, calls |-> <<>>, evals |-> <<>>,
                result |-> r.h.result, coordinator |-> coordinator, failing |-> failing,
                returned |-> r.h.returned, raised |-> r.h.raised, queued |-> r.h.queued,
                sent |-> r.sent,
                previous |-> IF last = NoRequest THEN <<>> ELSE <<last>>]
    /\ UNCHANGED <<shot_to_grams, concVars>>

RequestWorker ==
    \E rq \in Messages("request_worker") : \E failing \in Failing(rq) :
        /\ Accepts("request_worker", rq, failing)
        /\ Taken("request_worker", rq, failing,
                 request_worker(rq, inventory_cache, db, failing))

ProcessMessage ==
    \E rq \in Messages("process_message") : \E failing \in Failing(rq) :
        /\ Accepts("process_message", rq, failing)
        /\ Taken("process_message", rq, failing,
                 process_message(rq, inventory_cache, db, failing))

HandleRequest ==
    \E rq \in Messages("handle_request") :
        /\ Accepts("handle_request", rq, {})
        /\ Taken("handle_request", rq, {}, handle_request(rq, inventory_cache, db))

NextCoord ==
    \/ RequestWorker
    \/ ProcessMessage
    \/ HandleRequest
    \/ response_worker

SpecCoord == Init /\ [][NextCoord]_vars

(***************************************************************************)
(* Properties of the coordinators (checked under SpecCoord)                *)
(***************************************************************************)
IsRead == last.fn \in ReadHandlers

ResponseQueueOf(coordinator, client_type) ==
    CASE coordinator = "request_worker" -> "_response_queue"
      [] coordinator = "process_message" ->
            IF client_type \in DOMAIN output_queues THEN output_queues[client_type]
            ELSE "no queue"
      [] OTHER -> "reply_to"

IsTaken == last # NoRequest

\* C18: a request with an unknown function_name gets one response with
\* passed=false that says "Unknown function: <name>", and the coordinator
\* goes on to the next request.
C18_UnknownFunctionAnswered ==
    (IsTaken /\ last.request.function_name = "invalid_function") =>
        /\ Len(last.sent) = 1
        /\ ~last.sent[1].response.passed
        /\ last.sent[1].response.error = UnknownFunction(last.request.function_name)
        /\ last.sent[1].response.request_id = last.request.request_id

\* C19: every request that carries a request_id and a client_type gets exactly
\* one response on the response path, with the request_id and the client_type
\* of the request, delivered to the response queue of that client_type.
C19_ExactlyOneResponse ==
    (IsTaken /\ Envelope(last.request)) =>
        /\ Len(last.sent) = 1
        /\ last.sent[1].response.request_id = last.request.request_id
        /\ last.sent[1].response.client_type = last.request.client_type
        /\ last.sent[1].queue = ResponseQueueOf(last.coordinator, last.request.client_type)

\* C20: a request whose handler raised gets one response with passed=false
\* that carries the message of the exception and the request_id of the
\* request, and the coordinator goes on to the next request.
C20_HandlerExceptionAnswered ==
    (IsTaken /\ last.raised) =>
        /\ Len(last.sent) = 1
        /\ ~last.sent[1].response.passed
        /\ last.sent[1].response.error # ""
        /\ last.sent[1].response.request_id = last.request.request_id

(***************************************************************************)
(* SpecRefill: inventory_refill requests and periodic detection runs, one  *)
(* request or one run of _run_coffee_beans_detection per step.             *)
(***************************************************************************)
\* what CoffeeBeansDetector.detect_coffee_beans may do, with the percentage 0
\* of its scenarios 1.4 and 4.3
DetectorOutcomes == DetectorResults \cup {[raised |-> FALSE, percentage |-> 0]}

AppliesFromZero(res) == ~res.raised /\ res.percentage >= 0

\* cv_result.get("percentage", -1) > 0, for a detector that returned
AppliesDetection(res) == ~res.raised /\ res.percentage > 0

\* InventoryManager.update_inventory_from_detection(percentage): the store is
\* written, the cache follows if the store write succeeded
update_inventory_from_detection(cache, store, percentage, ok) ==
    LET w == db_update_inventory(store, CB, DetectedAmount(percentage), ok)
    IN  [cache |-> CacheAfterWrite(cache, CB, DetectedAmount(percentage), w.success),
         store |-> w.store, success |-> w.success]

AlertOfFailureAlways(function_name) == "camera_reconnect"

\* the alert_type of the result when the detector raised
AlertOfFailure(function_name) ==
    IF function_name = "inventory_refill" THEN "camera_reconnect" ELSE None

\* the alert_type of the result when the percentage is <= 0
AlertOfNoUpdate(function_name) ==
    IF function_name = "inventory_refill" THEN "visibility_issue" ELSE None

DetectionResult(cache, store, success, updated, percentage, alert_type, calls) ==
    [cache |-> cache, store |-> store, success |-> success, updated |-> updated,
     percentage |-> percentage, alert_type |-> alert_type, calls |-> calls]

\* the result of a detection that is applied: updated is True whatever
\* update_inventory_from_detection returned
Applied(u, percentage) ==
    DetectionResult(u.cache, u.store, TRUE, TRUE, percentage, None,
                    <<"detect_coffee_beans", "update_inventory_from_detection">>)

\* MainValidation._run_coffee_beans_detection(function_name); res: what the
\* detector does, ok: whether the store write succeeds
run_coffee_beans_detection(cache, store, function_name, res, ok) ==
    IF res.raised
    THEN DetectionResult(cache, store, FALSE, FALSE, 0, AlertOfFailure(function_name),
                         <<"detect_coffee_beans">>)
    ELSE IF AppliesDetection(res)
    THEN Applied(update_inventory_from_detection(cache, store, res.percentage, ok),
                 res.percentage)
    ELSE DetectionResult(cache, store, TRUE, FALSE, res.percentage,
                         AlertOfNoUpdate(function_name), <<"detect_coffee_beans">>)

needs_coffee_detection(ingredient_type, subtype) ==
    \/ ingredient_type = "coffee_beans" /\ subtype = "regular"
    \/ ingredient_type = "coffee_beans" /\ subtype = None
    \/ ingredient_type = None /\ subtype = None

\* no detection was needed
NoDetection(cache, store) == DetectionResult(cache, store, TRUE, TRUE, 0, None, <<>>)

\* the parameters of InventoryManager.refill_inventory
RefillParameters == {"ingredient_type", "subtype"}

\* the keyword arguments process_refill_ingredient_request calls it with
RefillKeywords == {"ingredient_type", "subtype", "skip_coffee_regular"}

\* the response of process_refill_ingredient_request
RefillResponse(cache, store, passed, alert_type, error, calls) ==
    [cache |-> cache, store |-> store, passed |-> passed, alert_type |-> alert_type,
     error |-> error, calls |-> calls]

\* the normal refill of the handler, after detection d: a keyword that
\* refill_inventory does not take raises TypeError before its body runs, and the
\* except block of the handler answers
NormalRefill(d, ingredient_type, subtype, failing) ==
    IF RefillKeywords \subseteq RefillParameters
    THEN LET r == refill_inventory(d.cache, d.store, ingredient_type, subtype, failing)
         IN  RefillResponse(r.cache, r.store, r.overall_success, None,
                            IF r.overall_success THEN "" ELSE "Failed to refill",
                            d.calls \o <<"refill_inventory">>)
    ELSE RefillResponse(d.cache, d.store, FALSE, None, "Error processing request",
                        d.calls \o <<"refill_inventory">>)

\* the handler after the detection, if one was needed, gave d
RefillAfterDetection(d, ingredient_type, subtype, failing) ==
    IF d.success /\ d.updated
    THEN IF ingredient_type = "coffee_beans" /\ subtype = "regular"
         THEN RefillResponse(d.cache, d.store, TRUE, None, "", d.calls)
         ELSE NormalRefill(d, ingredient_type, subtype, failing)
    ELSE RefillResponse(d.cache, d.store, FALSE,
                        IF d.alert_type # None THEN d.alert_type
                        ELSE IF d.success THEN "visibility_issue" ELSE "camera_reconnect",
                        "Detection", d.calls)

\* MainValidation.process_refill_ingredient_request for a message with
\* request_id and client_type
process_refill_ingredient_request(cache, store, ingredient_type, subtype, res, ok, failing) ==
    RefillAfterDetection(
        IF needs_coffee_detection(ingredient_type, subtype)
        THEN run_coffee_beans_detection(cache, store, "inventory_refill", res, ok)
        ELSE NoDetection(cache, store),
        ingredient_type, subtype, failing)

\* the state and last after a step that gave r
AfterRefill(request, r) ==
    /\ nops < MaxOps \/ (r.cache = inventory_cache /\ r.store = db)
    /\ inventory_cache' = r.cache
    /\ db' = r.store
    /\ nops' = IF r.cache = inventory_cache /\ r.store = db THEN nops ELSE nops + 1
    /\ last' = Called("inventory_refill", request, r.calls,
                      [passed |-> r.passed, alert_type |-> r.alert_type, error |-> r.error])
    /\ UNCHANGED <<shot_to_grams, concVars>>

RefillRequest ==
    /\ last = NoRequest
    /\ \E scope \in RefillScopes, res \in DetectorOutcomes, ok \in BOOLEAN :
       \E failing \in SUBSET {k \in Keys : InScope(k, scope[1], scope[2])} :
          AfterRefill([ingredient_type |-> scope[1], subtype |-> scope[2],
                       detector |-> res, ok |-> ok, failing |-> failing],
                      process_refill_ingredient_request(inventory_cache, db, scope[1],
                                                        scope[2], res, ok, failing))

\* the state and last after a periodic run that gave d
AfterDetection(request, d) ==
    /\ nops < MaxOps \/ (d.cache = inventory_cache /\ d.store = db)
    /\ inventory_cache' = d.cache
    /\ db' = d.store
    /\ nops' = IF d.cache = inventory_cache /\ d.store = db THEN nops ELSE nops + 1
    /\ last' = Called("periodic_detection", request, d.calls,
                      [success |-> d.success, updated |-> d.updated,
                       alert_type |-> d.alert_type])
    /\ UNCHANGED <<shot_to_grams, concVars>>

\* one run of _run_coffee_beans_detection for the periodic loop
PeriodicDetection ==
    /\ last = NoRequest
    /\ \E res \in DetectorOutcomes, ok \in BOOLEAN :
          AfterDetection([detector |-> res, ok |-> ok],
                         run_coffee_beans_detection(inventory_cache, db,
                                                    "periodic_detection", res, ok))

NextRefill ==
    \/ RefillRequest
    \/ PeriodicDetection
    \/ Return

SpecRefill == Init /\ [][NextRefill]_vars

(***************************************************************************)
(* Properties of refill and detection (checked under SpecRefill)           *)
(***************************************************************************)
IsRefillRequest == last.fn = "inventory_refill"

\* the values of a sequence
Range(f) == {f[i] : i \in DOMAIN f}

Unchanged == inventory_cache = last.pre /\ db = last.pre_db

\* C21: an inventory_refill request for coffee_beans/regular whose detection
\* returns a percentage <= 0 leaves the cache and the store unchanged and is
\* answered with passed=false and alert_type "visibility_issue".
C21_NoVisibleBeansNoRefill ==
    (/\ IsRefillRequest
     /\ last.request.ingredient_type = "coffee_beans"
     /\ last.request.subtype = "regular"
     /\ ~last.request.detector.raised
     /\ last.request.detector.percentage <= 0) =>
        /\ Unchanged
        /\ ~last.result.passed
        /\ last.result.alert_type = "visibility_issue"

C21_Witness ==
    /\ IsRefillRequest
    /\ last.request.ingredient_type = "coffee_beans"
    /\ last.request.subtype = "regular"
    /\ ~last.request.detector.raised
    /\ last.request.detector.percentage = 0
    /\ last.pre[CB] # 0
    /\ last.result.alert_type = "visibility_issue"

\* C22: when the detector raises during an inventory_refill request nothing
\* in the inventory is changed and the answer is passed=false with alert_type
\* "camera_reconnect"; when it raises during a periodic run nothing is changed
\* and the result carries no alert.
C22_DetectorFailureByCaller ==
    /\ (/\ IsRefillRequest
        /\ "detect_coffee_beans" \in Range(last.calls)
        /\ last.request.detector.raised) =>
           /\ Unchanged
           /\ ~last.result.passed
           /\ last.result.alert_type = "camera_reconnect"
    /\ (last.fn = "periodic_detection" /\ last.request.detector.raised) =>
           /\ Unchanged
           /\ ~last.result.updated
           /\ last.result.alert_type = None

C22_Witness ==
    /\ last.fn = "periodic_detection"
    /\ last.request.detector.raised
    /\ nops > 0
    /\ last.result.alert_type = None

\* the keys an inventory_refill request targets
Targets(request) ==
    IF ValidScope(last.pre, request.ingredient_type, request.subtype)
    THEN {k \in Keys : InScope(k, request.ingredient_type, request.subtype)}
    ELSE {}

\* C23: an inventory_refill request invokes the detector, before any refill
\* write, if and only if it targets coffee_beans/regular or names no
\* ingredient; a request that names another (type, subtype) never invokes the
\* detector, and when its store write succeeds the record is at max_capacity
\* and the answer is passed=true.
C23_DetectorIffRegularCoffee ==
    IsRefillRequest =>
        /\ ("detect_coffee_beans" \in Range(last.calls)) <=> (CB \in Targets(last.request))
        /\ "detect_coffee_beans" \in Range(last.calls) => last.calls[1] = "detect_coffee_beans"
        /\ \A k \in Keys \ {CB} :
              (/\ last.request.ingredient_type = k[1]
               /\ last.request.subtype = k[2]
               /\ k \notin last.request.failing) =>
                  /\ inventory_cache[k] = inventory_rules[k].max_capacity
                  /\ last.result.passed

(***************************************************************************)
(* SpecLoop: the lifecycle of the periodic detection task.  The loop runs  *)
(* on the event loop, its detection jobs run in the thread pool, and       *)
(* start_periodic_detection / stop_periodic_detection are called by the    *)
(* service.  nops counts the loops that were started.                      *)
(***************************************************************************)
InitLoop ==
    /\ Init
    /\ sched = NoScheduler
    /\ chan = NoTraffic

\* a job handed to the thread pool that has not run yet
SubmittedJob == [pc |-> "detect"]

\* what the loop awaits once _run_coffee_beans_detection has returned d
FinishedJob(d, res, ok, cache, store) ==
    [pc |-> "finished", raised |-> res.raised, percentage |-> res.percentage, ok |-> ok,
     updated |-> d.updated, success |-> d.success, pre |-> cache, pre_db |-> store,
     post |-> d.cache, post_db |-> d.store]

LoopBreaksOnFailure(job) == IF job.raised THEN "stopped" ELSE "sleeping"

\* where the loop goes after the try block around run_in_executor: neither
\* branch of the result nor `except Exception` leaves the while loop
LoopAfterJob(job) == "sleeping"

CancelIgnored(position) == position

\* task.cancel(): CancelledError is thrown at the await the task is suspended
\* at (or before its first step), and both except clauses break
LoopAfterCancel(position) == "stopped"

\* start_periodic_detection is called by ValidationServiceApp.start and
\* stop_periodic_detection by ValidationServiceApp.stop, one after the other
StartPeriodicDetection ==
    /\ sched.stop_pc # "awaiting"
    /\ IF loop_pc = "stopped"
       THEN /\ nops <= MaxOps
            /\ nops' = nops + 1
            /\ loop_pc' = "created"
            /\ sched' = [sched EXCEPT !.detection_running = TRUE, !.stop_pc = "idle"]
       ELSE UNCHANGED <<nops, loop_pc, sched>>
    /\ UNCHANGED <<inventory_cache, db, shot_to_grams, last, pc, running, task, det, hist, chan>>

\* the first step of the task and every return of asyncio.sleep: the while test
LoopTest ==
    /\ loop_pc \in {"created", "sleeping"}
    /\ sched.stop_pc # "awaiting"
    /\ loop_pc' = IF sched.detection_running THEN "tick" ELSE "stopped"
    /\ UNCHANGED <<inventory_cache, db, shot_to_grams, last, nops, pc, running, task, det, hist,
                   sched, chan>>

\* loop.run_in_executor(self._thread_pool, self._run_coffee_beans_detection)
LoopTick ==
    /\ loop_pc = "tick"
    /\ sched.stop_pc # "awaiting"
    /\ loop_pc' = "waiting"
    /\ det' = SubmittedJob
    /\ UNCHANGED <<inventory_cache, db, shot_to_grams, last, nops, pc, running, task, hist, sched, chan>>

\* the worker thread runs the job of the loop
RunJob ==
    /\ det.pc = "detect"
    /\ \E res \in DetectorOutcomes, ok \in BOOLEAN :
         LET d == run_coffee_beans_detection(inventory_cache, db, "periodic_detection", res, ok)
         IN  /\ inventory_cache' = d.cache
             /\ db' = d.store
             /\ det' = FinishedJob(d, res, ok, inventory_cache, db)
    /\ UNCHANGED <<shot_to_grams, last, nops, pc, running, task, loop_pc, hist, sched, chan>>

\* the worker thread runs a job whose loop was cancelled while awaiting it
RunOrphan ==
    /\ sched.orphans > 0
    /\ \E res \in DetectorOutcomes, ok \in BOOLEAN :
         LET d == run_coffee_beans_detection(inventory_cache, db, "periodic_detection", res, ok)
         IN  /\ inventory_cache' = d.cache
             /\ db' = d.store
    /\ sched' = [sched EXCEPT !.orphans = @ - 1]
    /\ UNCHANGED <<shot_to_grams, last, nops, pc, running, task, det, loop_pc, hist, chan>>

\* the future of run_in_executor resolves and the loop logs the result
LoopJobDone ==
    /\ loop_pc = "waiting"
    /\ det.pc = "finished"
    /\ sched.stop_pc # "awaiting"
    /\ loop_pc' = LoopAfterJob(det)
    /\ UNCHANGED <<inventory_cache, db, shot_to_grams, last, nops, pc, running, task, det, hist,
                   sched, chan>>

\* stop_periodic_detection up to its await
StopPeriodicDetection ==
    /\ sched.stop_pc # "awaiting"
    /\ sched' = [sched EXCEPT !.detection_running = FALSE,
                              !.stop_pc = IF loop_pc # "stopped" THEN "awaiting" ELSE "returned"]
    /\ UNCHANGED <<inventory_cache, db, shot_to_grams, last, nops, pc, running, task, det, loop_pc,
                   hist, chan>>

\* the cancelled task takes its step; a job it awaited stays in the pool
LoopCancelled ==
    /\ sched.stop_pc = "awaiting"
    /\ loop_pc # "stopped"
    /\ loop_pc' = LoopAfterCancel(loop_pc)
    /\ IF loop_pc = "waiting" /\ det.pc = "detect"
       THEN /\ det' = NoJob
            /\ sched' = [sched EXCEPT !.orphans = @ + 1]
       ELSE UNCHANGED <<det, sched>>
    /\ UNCHANGED <<inventory_cache, db, shot_to_grams, last, nops, pc, running, task, hist, chan>>

\* `await self._detection_task` returns and stop_periodic_detection ends
StopReturns ==
    /\ sched.stop_pc = "awaiting"
    /\ loop_pc = "stopped"
    /\ sched' = [sched EXCEPT !.stop_pc = "returned"]
    /\ UNCHANGED <<inventory_cache, db, shot_to_grams, last, nops, pc, running, task, det, loop_pc,
                   hist, chan>>

NextLoop ==
    \/ StartPeriodicDetection
    \/ LoopTest
    \/ LoopTick
    \/ RunJob
    \/ RunOrphan
    \/ LoopJobDone
    \/ StopPeriodicDetection
    \/ LoopCancelled
    \/ StopReturns

\* the event loop runs every task that is ready; nothing makes a detector return
SpecLoop ==
    /\ InitLoop
    /\ [][NextLoop]_vars
    /\ WF_vars(LoopTest)
    /\ WF_vars(LoopJobDone)
    /\ WF_vars(LoopCancelled)
    /\ WF_vars(StopReturns)

(***************************************************************************)
(* Properties of the periodic detection loop                               *)
(***************************************************************************)
\* the detector raised, or the store refused the write of the update
FailedTick == det.pc = "finished" /\ (det.raised \/ ~det.ok)

\* the job of the last tick left the inventory alone unless it saw beans
UpdatedOnlyIfVisible ==
    (det.pc = "finished" /\ (det.raised \/ det.percentage <= 0)) =>
        (~det.updated /\ det.post = det.pre /\ det.post_db = det.pre_db)

\* the loop ends only by stop_periodic_detection
LoopRunsUnlessStopped == sched.detection_running => loop_pc # "stopped"

\* C24: on every tick of the periodic detection loop the inventory is updated
\* only if the detected percentage is > 0, and no exception of the detector or
\* of the update escapes the loop: after a failing tick the loop is still
\* running, and it performs the next tick after the interval unless it is
\* stopped first.
C24_TickNeverEndsLoop ==
    /\ [](UpdatedOnlyIfVisible /\ LoopRunsUnlessStopped)
    /\ (FailedTick /\ loop_pc = "waiting") ~> (loop_pc = "tick" \/ ~sched.detection_running)

\* the loop is about to tick again after a tick whose detector raised
C24_Witness ==
    /\ det.pc = "finished"
    /\ det.raised
    /\ loop_pc = "tick"
    /\ sched.detection_running

StopReturned == sched.stop_pc = "returned"

\* C25: the periodic scheduler is cancellable and restartable as a unit:
\* stop_periodic_detection always terminates, when it has returned the
\* detection task is finished and no further tick is started, and a later
\* start_periodic_detection starts a fresh loop, which ticks unless it is
\* stopped first.
C25_StopAndRestart ==
    /\ (sched.stop_pc = "awaiting") ~> StopReturned
    /\ [](StopReturned => (loop_pc = "stopped" /\ ~sched.detection_running))
    /\ [][loop_pc' = "waiting" /\ loop_pc # "waiting" => sched.detection_running]_vars
    /\ [][StopReturned /\ ~StopReturned' => loop_pc' = "created" /\ sched'.detection_running]_vars
    /\ (loop_pc = "created") ~> (loop_pc = "tick" \/ ~sched.detection_running)

\* a loop that was started after a stop has ticked
C25_Witness ==
    /\ nops >= 2
    /\ loop_pc = "waiting"
    /\ sched.stop_pc = "idle"
    /\ sched.detection_running

(***************************************************************************)
(* SpecBlock: inventory_refill handlers beside update_inventory handlers.  *)
(* handle_refill_inventory calls process_refill_ingredient_request, which  *)
(* calls _run_coffee_beans_detection itself, on the event-loop thread; the *)
(* periodic loop, which hands the same call to the pool, is in SpecConc.   *)
(***************************************************************************)
\* a service whose periodic detection was not started
InitPar ==
    /\ db \in InitialStores
    /\ inventory_cache = db
    /\ shot_to_grams \in ShotTables
    /\ last = NoRequest
    /\ nops = 0
    /\ pc = [r \in 1..MaxReq |-> "idle"]
    /\ running = 0
    /\ task = [r \in 1..MaxReq |-> NoTask]
    /\ det = NoJob
    /\ loop_pc = "stopped"
    /\ hist = [NoHistory EXCEPT !.initial = db]
    /\ sched = NoScheduler
    /\ chan = NoTraffic

\* RabbitMQClient._handle_request: an inventory_refill message for
\* coffee_beans/regular arrives, its handler task is created
SubmitRefill(r) ==
    /\ pc[r] = "idle"
    /\ \A q \in 1..(r - 1) : pc[q] # "idle"
    /\ task' = [task EXCEPT ![r] = [NoTask EXCEPT !.client_type = "dashboard"]]
    /\ pc' = [pc EXCEPT ![r] = "refill_pending"]
    /\ UNCHANGED <<inventory_cache, db, shot_to_grams, last, nops, running, det, loop_pc, hist,
                   sched, chan>>

\* handle_refill_inventory runs up to self.coffee_detector.detect_coffee_beans(),
\* a plain call: the event-loop thread stays with r until the detector returns
StartRefill(r) ==
    /\ pc[r] = "refill_pending"
    /\ running = 0
    /\ pc' = [pc EXCEPT ![r] = "refill_detect"]
    /\ running' = r
    /\ UNCHANGED <<inventory_cache, db, shot_to_grams, last, nops, task, det, loop_pc, hist,
                   sched, chan>>

\* the detector returns (or raises) and the handler runs to its await, or to
\* its end when the request did not pass
RefillDetected(r) ==
    /\ pc[r] = "refill_detect"
    /\ running = r
    /\ \E res \in DetectorOutcomes, ok \in BOOLEAN :
         LET resp == process_refill_ingredient_request(inventory_cache, db, "coffee_beans",
                                                       "regular", res, ok, {})
             p == IF resp.passed THEN "events" ELSE "done"
         IN  /\ inventory_cache' = resp.cache
             /\ db' = resp.store
             /\ hist' = IF resp.store # db THEN [hist EXCEPT !.other[CB] = TRUE] ELSE hist
             /\ task' = [task EXCEPT ![r].passed = resp.passed]
             /\ pc' = [pc EXCEPT ![r] = p]
             /\ running' = Yield(r, p)
    /\ UNCHANGED <<shot_to_grams, last, nops, det, loop_pc, sched, chan>>

NextBlock ==
    \/ \E r \in 1..MaxReq : Submit(r)
    \/ \E r \in 1..MaxReq : StartHandler(r)
    \/ \E r \in 1..MaxReq : UpdRead(r)
    \/ \E r \in 1..MaxReq : UpdDb(r)
    \/ \E r \in 1..MaxReq : UpdCache(r)
    \/ \E r \in 1..MaxReq : FinishHandler(r)
    \/ \E r \in 1..MaxReq : SubmitRefill(r)
    \/ \E r \in 1..MaxReq : StartRefill(r)
    \/ \E r \in 1..MaxReq : RefillDetected(r)

SpecBlock == InitPar /\ [][NextBlock]_vars

\* a call of detect_coffee_beans has not returned yet
DetectorInProgress ==
    \/ det.pc = "detect"
    \/ \E q \in 1..MaxReq : pc[q] = "refill_detect"

\* C26: a slow or hung detector call never blocks request handling: while a
\* detector invocation (periodic, or made for an inventory_refill request) is
\* in progress, the event-loop thread is free for a pending update_inventory
\* request, or busy with a handler that is not itself inside the detector.
C26_DetectorNeverBlocksRequests ==
    \A r \in 1..MaxReq :
        (pc[r] = "pending" /\ DetectorInProgress) =>
            (running = 0 \/ pc[running] # "refill_detect")

(***************************************************************************)
(* SpecStore: update_inventory handlers of this service beside a second    *)
(* service instance that writes the same inventory table.                  *)
(***************************************************************************)
\* the amounts another instance adds to a row
ForeignDeltas == {1}

\* another instance runs DatabaseClient.update_inventory on row k, after this
\* service computed new_amount for k from its cache and before it writes k
OtherInstanceWrite ==
    /\ nops < MaxOps
    /\ \E r \in 1..MaxReq, delta \in ForeignDeltas :
          /\ pc[r] = "upd_db"
          /\ db' = [db EXCEPT ![TaskKey(r)] = @ + delta]
          /\ hist' = [hist EXCEPT !.foreign[TaskKey(r)] = @ + delta]
    /\ nops' = nops + 1
    /\ UNCHANGED <<inventory_cache, shot_to_grams, last, pc, running, task, det, loop_pc, sched, chan>>

NextStore ==
    \/ \E r \in 1..MaxReq : Submit(r)
    \/ \E r \in 1..MaxReq : StartHandler(r)
    \/ \E r \in 1..MaxReq : UpdRead(r)
    \/ \E r \in 1..MaxReq : UpdDb(r)
    \/ \E r \in 1..MaxReq : UpdCache(r)
    \/ \E r \in 1..MaxReq : FinishHandler(r)
    \/ OtherInstanceWrite

SpecStore == InitPar /\ [][NextStore]_vars

AllDone == \A r \in 1..MaxReq : pc[r] = "done"

\* C28: the store update path locks the row, reads it, computes the new amount
\* and writes it before unlocking: when another instance writes a row between
\* this service's cache read and its store write, neither write is lost, and
\* the stored amount ends as the initial amount plus the deltas of both.
C28_NoForeignWriteLost ==
    AllDone => \A k \in Keys : db[k] = hist.initial[k] + hist.sum[k] + hist.foreign[k]

(***************************************************************************)
(* SpecPar: update_inventory requests on pairwise disjoint keys, handled   *)
(* by concurrent handler tasks.                                            *)
(***************************************************************************)
ParRequests ==
    { [client_type |-> "scheduler",
       ingredients |-> << [ingredient |-> "espresso", type |-> "regular", amount |-> 2] >>],
      [client_type |-> "scheduler",
       ingredients |-> << [ingredient |-> "milk", type |-> "whole", amount |-> 2],
                          [ingredient |-> "milk", type |-> "whole", amount |-> 1] >>],
      [client_type |-> "dashboard",
       ingredients |-> << [ingredient |-> "cup", type |-> "H9", amount |-> 1] >>],
      [client_type |-> "dashboard",
       ingredients |-> << [ingredient |-> "espresso", type |-> "regular", amount |-> 1],
                          [ingredient |-> "cup", type |-> "H9", amount |-> 1] >>] }

\* the (type, subtype) keys a request names
KeysOf(ingredients) ==
    { <<IngredientType(ingredients[j].ingredient), ingredients[j].type>> :
        j \in 1..Len(ingredients) }

\* a message arrives whose keys no request submitted before it names
SubmitDisjoint(r) ==
    /\ pc[r] = "idle"
    /\ \A q \in 1..(r - 1) : pc[q] # "idle"
    /\ \E req \in ParRequests :
          /\ \A q \in 1..(r - 1) : KeysOf(task[q].ingredients) \cap KeysOf(req.ingredients) = {}
          /\ task' = [task EXCEPT ![r] = [NoTask EXCEPT !.client_type = req.client_type,
                                                        !.ingredients = req.ingredients]]
    /\ pc' = [pc EXCEPT ![r] = "pending"]
    /\ UNCHANGED <<inventory_cache, db, shot_to_grams, last, nops, running, det, loop_pc, hist,
                   sched, chan>>

NextPar ==
    \/ \E r \in 1..MaxReq : SubmitDisjoint(r)
    \/ \E r \in 1..MaxReq : StartHandler(r)
    \/ \E r \in 1..MaxReq : UpdRead(r)
    \/ \E r \in 1..MaxReq : UpdDb(r)
    \/ \E r \in 1..MaxReq : UpdCache(r)
    \/ \E r \in 1..MaxReq : FinishHandler(r)

SpecPar == InitPar /\ [][NextPar]_vars

\* the orders in which the submitted requests can be applied one after another
SerialOrders == { o \in [1..MaxReq -> 1..MaxReq] : \A r \in 1..MaxReq : \E j \in 1..MaxReq : o[j] = r }

\* the cache after the requests order[j..] were applied to st one after
\* another, every store write succeeding
RECURSIVE SerialCache(_, _, _)
SerialCache(st, order, j) ==
    IF j > MaxReq THEN st.cache
    ELSE SerialCache(UpdateLoop([st EXCEPT !.passed = TRUE], task[order[j]].ingredients, {},
                                task[order[j]].client_type, 1),
                     order, j + 1)

InitialState ==
    [cache |-> hist.initial, store |-> hist.initial, passed |-> TRUE, details |-> NoDetails,
     calls |-> <<>>]

AllPassed == \A r \in 1..MaxReq : task[r].passed

TouchedKeys == UNION { KeysOf(task[r].ingredients) : r \in 1..MaxReq }

\* C29: for concurrent update_inventory calls on pairwise disjoint keys, the
\* final cache is the same for every interleaving: each key holds its initial
\* amount plus the deltas of the writes that succeeded, a key no call names is
\* as it was, and when every write succeeded the cache equals the result of
\* applying the calls one after another in any order.
C29_DisjointUpdatesCommute ==
    AllDone =>
        /\ \A k \in Keys : inventory_cache[k] = hist.initial[k] + hist.sum[k]
        /\ \A k \in Keys \ TouchedKeys : inventory_cache[k] = hist.initial[k]
        /\ AllPassed => \A o \in SerialOrders : inventory_cache = SerialCache(InitialState, o, 1)

\* every request is done, two of them wrote different keys
C29_Witness ==
    /\ AllDone
    /\ AllPassed
    /\ \E k1 \in Keys, k2 \in Keys : k1 # k2 /\ hist.sum[k1] # 0 /\ hist.sum[k2] # 0

(***************************************************************************)
(* SpecAlert: the handlers ValidationServiceApp registers for the mutating *)
(* requests, with the events they send after the request was processed;   *)
(* one request per step.                                                   *)
(***************************************************************************)
\* the categories handle_refill_inventory takes when no type is given
AllCategories == <<"coffee_beans", "cups", "milk", "syrup">>

NoAlerts == <<>>

\* check_and_send_alerts, for one subtype: send_alert_to_oms for empty and low,
\* send_resolution_to_oms for high and medium
AlertOf(status, k) ==
    IF status \in {"empty", "low"}
    THEN <<[event |-> "validation.threshold_warning", key |-> k]>>
    ELSE IF status \in {"high", "medium"}
    THEN <<[event |-> "validation.threshold_resolved", key |-> k]>>
    ELSE NoAlerts

\* check_and_send_alerts: the loop over every subtype of the category status
RECURSIVE check_and_send_alerts(_, _)
check_and_send_alerts(category_status, i) ==
    IF i > Len(KeyOrder) THEN NoAlerts
    ELSE (IF KeyOrder[i] \in DOMAIN category_status
          THEN AlertOf(category_status[KeyOrder[i]].status, KeyOrder[i])
          ELSE NoAlerts) \o check_and_send_alerts(category_status, i + 1)

\* send_inventory_status_event: for each affected category, the status of the
\* whole category is read and checked for alerts
RECURSIVE send_inventory_status_event(_, _, _)
send_inventory_status_event(cache, affected_categories, i) ==
    IF i > Len(AllCategories) THEN NoAlerts
    ELSE (IF AllCategories[i] \in affected_categories
          THEN check_and_send_alerts(get_inventory_status(cache, AllCategories[i], None), 1)
          ELSE NoAlerts) \o send_inventory_status_event(cache, affected_categories, i + 1)

\* the events are sent only if result.get("passed")
EventsAfter(cache, passed, affected_categories) ==
    IF passed THEN send_inventory_status_event(cache, affected_categories, 1) ELSE NoAlerts

\* the state and last after a handler that left cache and store and sent alerts
Handled(fn, request, cache, store, passed, alerts) ==
    /\ nops < MaxOps \/ (cache = inventory_cache /\ store = db)
    /\ inventory_cache' = cache
    /\ db' = store
    /\ nops' = IF cache = inventory_cache /\ store = db THEN nops ELSE nops + 1
    /\ last' = Called(fn, request, <<>>, [passed |-> passed, alerts |-> alerts])
    /\ UNCHANGED <<shot_to_grams, concVars>>

\* the categories handle_update_inventory extracts from the request
AffectedCategories(ingredients) ==
    {IngredientType(ingredients[j].ingredient) : j \in 1..Len(ingredients)}

UpdateHandled(request, st, affected_categories) ==
    Handled("handle_update_inventory", request, st.cache, st.store, st.passed,
            EventsAfter(st.cache, st.passed, affected_categories))

\* ValidationServiceApp.handle_update_inventory; every store write succeeds, or
\* the last one fails
handle_update_inventory ==
    /\ last = NoRequest
    /\ \E client_type \in ClientTypes, ingredients \in SeqsUpTo(IngredientChoices, MaxIngredients) :
       \E failing \in {{}, {Len(ingredients)}} :
          UpdateHandled([client_type |-> client_type, ingredients |-> ingredients,
                         failing |-> failing],
                        UpdateLoop([cache |-> inventory_cache, store |-> db, passed |-> TRUE,
                                    details |-> NoDetails, calls |-> <<>>],
                                   ingredients, failing, client_type, 1),
                        AffectedCategories(ingredients))

RefillHandled(request, r, affected_categories) ==
    Handled("handle_refill_inventory", request, r.cache, r.store, r.passed,
            EventsAfter(r.cache, r.passed, affected_categories))

\* ValidationServiceApp.handle_refill_inventory
handle_refill_inventory ==
    /\ last = NoRequest
    /\ \E scope \in RefillScopes, res \in DetectorOutcomes, ok \in BOOLEAN :
          RefillHandled([ingredient_type |-> scope[1], subtype |-> scope[2],
                         detector |-> res, ok |-> ok],
                        process_refill_ingredient_request(inventory_cache, db, scope[1],
                                                          scope[2], res, ok, {}),
                        IF scope[1] # None THEN {scope[1]} ELSE Range(AllCategories))

NextAlert ==
    \/ handle_update_inventory
    \/ handle_refill_inventory
    \/ Return

SpecAlert == Init /\ [][NextAlert]_vars

\* the (type, subtype) pairs the request of last touched
Touched ==
    IF last.fn = "handle_update_inventory" THEN KeysOf(last.request.ingredients)
    ELSE {k \in Keys : InScope(k, last.request.ingredient_type, last.request.subtype)}

AlertsFor(k) == {i \in DOMAIN last.result.alerts : last.result.alerts[i].key = k}

ExpectedEvent(k) ==
    IF StatusOf(Percentage(k, inventory_cache[k])) \in {"low", "empty"}
    THEN "validation.threshold_warning"
    ELSE "validation.threshold_resolved"

IsMutation == last.fn \in {"handle_update_inventory", "handle_refill_inventory"}

\* C27: after a successful mutation request exactly one alert event is emitted
\* for each (type, subtype) the request touched, threshold-warning when its
\* status is low or empty and threshold-resolved when it is medium or high; no
\* alert is emitted for a subtype or category the request did not touch, and
\* none when the request did not pass.
C27_OneAlertPerTouchedKey ==
    IsMutation =>
        IF last.result.passed
        THEN \A k \in Keys :
                IF k \in Touched
                THEN /\ Cardinality(AlertsFor(k)) = 1
                     /\ \A i \in AlertsFor(k) : last.result.alerts[i].event = ExpectedEvent(k)
                ELSE AlertsFor(k) = {}
        ELSE last.result.alerts = NoAlerts

(***************************************************************************)
(* Properties of the dispatch (checked under SpecCoord)                    *)
(***************************************************************************)
\* the function names a client may send
ClosedSet ==
    {"pre_check", "update_inventory", "ingredient_status", "inventory_refill",
     "category_summary", "stock_level", "category_count", "category_info"}

\* the handler MainValidation defines for a function name of the closed set
HandlerOf(function_name) ==
    CASE function_name = "pre_check" -> "process_pre_check_request"
      [] function_name = "update_inventory" -> "process_update_inventory_request"
      [] function_name = "ingredient_status" -> "process_ingredient_status_request"
      [] function_name = "inventory_refill" -> "process_refill_ingredient_request"
      [] function_name = "category_summary" -> "process_category_summary_request"
      [] function_name = "stock_level" -> "process_stock_level_request"
      [] function_name = "category_count" -> "process_category_count_request"
      [] OTHER -> "process_category_info_request"

\* C30: the dispatch of a coordinator maps each function_name of the closed
\* set to its own handler: a request a coordinator has taken was executed by
\* the handler of its function_name and by no other, and it ended in exactly
\* one of the two ways, a result returned or an exception.
C30_DispatchToOwnHandler ==
    (IsTaken /\ last.request.function_name \in ClosedSet) =>
        /\ last.fn = HandlerOf(last.request.function_name)
        /\ last.returned # last.raised

(***************************************************************************)
(* Further properties of the handlers (checked under Spec)                 *)
(***************************************************************************)
Items == 1..Len(last.request.items)

IsSchedulerPreCheck == IsPreCheck /\ last.request.client_type = "scheduler"

\* C31: a scheduler pre_check whose items list an "espresso" ingredient is
\* evaluated as a sufficiency check of coffee_beans of the named subtype for
\* the gram equivalent of the requested shots: it is not answered with an
\* error response, every item is evaluated, and the espresso entry of an item
\* says whether the stock covers convert_shots_to_grams(shots).
C31_EspressoIsChecked ==
    (/\ IsSchedulerPreCheck
     /\ \E i \in Items : HasIngredient(last.request.items[i], "espresso")) =>
        /\ last.result.error = ""
        /\ Len(last.evals) = Len(last.request.items)
        /\ \A i \in Items :
              HasIngredient(last.request.items[i], "espresso") =>
                 /\ "espresso" \in DOMAIN last.evals[i].comps
                 /\ last.evals[i].comps["espresso"].needed
                       = convert_shots_to_grams(
                             IngredientNamed(last.request.items[i], "espresso").amount)

\* what the items before item i that passed need of key k
RECURSIVE NeededByPassedBefore(_, _)
NeededByPassedBefore(i, k) ==
    IF i <= 1 THEN 0
    ELSE LET comps == last.evals[i - 1].comps
             hit == {n \in DOMAIN comps : comps[n].key = k}
         IN  NeededByPassedBefore(i - 1, k)
             + (IF last.evals[i - 1].status /\ hit # {}
                THEN comps[CHOOSE n \in hit : TRUE].needed ELSE 0)

\* C36: in pre_check an item that fails does not reduce the working copy seen
\* by later items: every component of an item is checked against the amount at
\* the start of the request less what the earlier items that PASSED need, so
\* neither the cup nor a passing ingredient of a failed item is debited.
C36_FailedItemNotDebited ==
    IsPreCheck =>
        \A i \in Evals : \A n \in DOMAIN last.evals[i].comps :
            LET c == last.evals[i].comps[n] IN
            c.current = last.pre[c.key] - NeededByPassedBefore(i, c.key)

\* C37: the response of a scheduler pre_check that raised no error has one
\* details entry per item of the batch, also when two items have the same
\* drink_name: the entry of every item holds the result of that item.
C37_OneEntryPerItem ==
    (IsSchedulerPreCheck /\ last.result.error = "") =>
        /\ Cardinality(DOMAIN last.result.details) = Len(last.request.items)
        /\ \A i \in Evals :
              /\ last.evals[i].drink_name \in DOMAIN last.result.details
              /\ last.result.details[last.evals[i].drink_name]
                    = [status |-> last.evals[i].status, comps |-> last.evals[i].comps]

\* the calls of the request that updated key k
CallsOn(k) == {i \in Calls : last.calls[i].key = k}

\* the sum of the signed amounts of the calls in S
RECURSIVE SignedSum(_)
SignedSum(S) ==
    IF S = {} THEN 0
    ELSE LET i == CHOOSE x \in S : TRUE
         IN  last.calls[i].amount + SignedSum(S \ {i})

LastCallOn(k) == CHOOSE i \in CallsOn(k) : \A j \in CallsOn(k) : j <= i

\* C38: the details of an update_inventory response account for every update
\* of the request: every (type, subtype) whose updates all succeeded has its
\* own entry (two subtypes of one type are both reported), whose
\* updated_amount is the sum of the signed amounts of its updates and whose
\* status is the level returned by the last of them.
C38_DetailsAccountForEveryUpdate ==
    IsUpdate =>
        \A k \in {last.calls[i].key : i \in Calls} :
            (\A i \in CallsOn(k) : last.calls[i].success) =>
                /\ k[1] \in DOMAIN last.result.details
                /\ LET entry == last.result.details[k[1]] IN
                   /\ entry.type = k[2]
                   /\ entry.updated_amount = SignedSum(CallsOn(k))
                   /\ entry.status = last.calls[LastCallOn(k)].warning

\* C39: pre_check and update_inventory agree on coffee consumption: the grams
\* a successful scheduler update_inventory removes from coffee_beans for n
\* shots are convert_shots_to_grams(n), the amount pre_check projects for n
\* shots, for every shots-to-grams table.
C39_UpdateRemovesProjectedGrams ==
    (IsUpdate /\ last.request.client_type = "scheduler") =>
        \A i \in Calls :
            LET c == last.calls[i]
                shots == last.request.ingredients[i].amount
            IN  (c.success /\ c.key[1] = "coffee_beans") =>
                    c.old - c.new = convert_shots_to_grams(shots)

(***************************************************************************)
(* SpecQueue: the queue and event-flag handshake of rest_app.py between    *)
(* the clients that call post_request, the request worker thread and the   *)
(* response worker thread.  Client r posts one ingredient_status request,  *)
(* whose handler leaves the inventory as it is.                            *)
(***************************************************************************)
\* post_request: self._request_queue.put(request)
PostPut(r) ==
    /\ pc[r] = "idle"
    /\ pc' = [pc EXCEPT ![r] = "put"]
    /\ chan' = [chan EXCEPT !.queue = Append(@, r)]
    /\ UNCHANGED <<inventory_cache, db, shot_to_grams, last, nops, running, task, det, loop_pc,
                   hist, sched>>

\* post_request: self._request_event.set()
PostSet(r) ==
    /\ pc[r] = "put"
    /\ pc' = [pc EXCEPT ![r] = "posted"]
    /\ chan' = [chan EXCEPT !.event = TRUE]
    /\ UNCHANGED <<inventory_cache, db, shot_to_grams, last, nops, running, task, det, loop_pc,
                   hist, sched>>

QueueUnchanged ==
    UNCHANGED <<inventory_cache, db, shot_to_grams, last, nops, pc, running, task, det, loop_pc,
                hist, sched>>

\* request_worker: self._request_event.wait() returns, and the queue is tested
WorkerWait ==
    /\ chan.worker = "wait"
    /\ chan.event
    /\ chan' = [chan EXCEPT !.worker = IF chan.queue # <<>> THEN "get" ELSE "wait"]
    /\ QueueUnchanged

\* request_worker: request = self._request_queue.get()
WorkerGet ==
    /\ chan.worker = "get"
    /\ chan.queue # <<>>
    /\ chan' = [chan EXCEPT !.worker = "clear", !.request = Head(chan.queue),
                            !.queue = Tail(@)]
    /\ QueueUnchanged

\* request_worker: self._request_event.clear()
WorkerClear ==
    /\ chan.worker = "clear"
    /\ chan' = [chan EXCEPT !.worker = "process", !.event = FALSE]
    /\ QueueUnchanged

\* request_worker: the handler runs and self._response_queue.put(result)
WorkerProcess ==
    /\ chan.worker = "process"
    /\ chan' = [chan EXCEPT !.worker = "respond", !.rqueue = Append(@, chan.request),
                            !.request = 0]
    /\ QueueUnchanged

\* request_worker: self._response_event.set(), and back to the wait
WorkerRespond ==
    /\ chan.worker = "respond"
    /\ chan' = [chan EXCEPT !.worker = "wait", !.revent = TRUE]
    /\ QueueUnchanged

\* response_worker: self._response_event.wait() returns, and the queue is tested
ResponseWait ==
    /\ chan.rworker = "wait"
    /\ chan.revent
    /\ chan' = [chan EXCEPT !.rworker = IF chan.rqueue # <<>> THEN "get" ELSE "wait"]
    /\ QueueUnchanged

\* response_worker: response = self._response_queue.get()
ResponseGet ==
    /\ chan.rworker = "get"
    /\ chan.rqueue # <<>>
    /\ chan' = [chan EXCEPT !.rworker = "clear", !.rqueue = Tail(@),
                            !.response = Head(chan.rqueue)]
    /\ QueueUnchanged

\* response_worker: self._response_event.clear()
ResponseClear ==
    /\ chan.rworker = "clear"
    /\ chan' = [chan EXCEPT !.rworker = "store", !.revent = FALSE]
    /\ QueueUnchanged

\* response_worker: self.response_storage[request_id] = response, and back to
\* the wait
ResponseStore ==
    /\ chan.rworker = "store"
    /\ chan' = [chan EXCEPT !.rworker = "wait", !.response = 0,
                            !.stored = @ \cup {chan.response}]
    /\ QueueUnchanged

NextQueue ==
    \/ \E r \in 1..MaxReq : PostPut(r)
    \/ \E r \in 1..MaxReq : PostSet(r)
    \/ WorkerWait
    \/ WorkerGet
    \/ WorkerClear
    \/ WorkerProcess
    \/ WorkerRespond
    \/ ResponseWait
    \/ ResponseGet
    \/ ResponseClear
    \/ ResponseStore

\* the threads of the workers and of the clients all get to run
SpecQueue ==
    /\ Init
    /\ [][NextQueue]_vars
    /\ WF_vars(WorkerWait) /\ WF_vars(WorkerGet) /\ WF_vars(WorkerClear)
    /\ WF_vars(WorkerProcess) /\ WF_vars(WorkerRespond)
    /\ WF_vars(ResponseWait) /\ WF_vars(ResponseGet) /\ WF_vars(ResponseClear)
    /\ WF_vars(ResponseStore)
    /\ \A r \in 1..MaxReq : WF_vars(PostSet(r))

\* a request sits in the request queue while the request worker blocks in
\* wait() and no client is about to set the event
RequestLeftWaiting ==
    /\ chan.queue # <<>>
    /\ chan.worker = "wait"
    /\ ~chan.event
    /\ \A r \in 1..MaxReq : pc[r] # "put"

\* the same for a response, the response worker and the request worker
ResponseLeftWaiting ==
    /\ chan.rqueue # <<>>
    /\ chan.rworker = "wait"
    /\ ~chan.revent
    /\ chan.worker # "respond"

\* C32: every request put on the request queue by post_request is eventually
\* taken and processed by the request worker, and its response is eventually
\* taken by the response worker, for every interleaving: the handshake never
\* leaves a request (or a response) in its queue while the worker blocks
\* waiting for an event that nobody is about to set.
C32_EveryRequestTaken ==
    /\ [](~RequestLeftWaiting /\ ~ResponseLeftWaiting)
    /\ \A r \in 1..MaxReq : (pc[r] = "posted") ~> (r \in chan.stored)

(***************************************************************************)
(* Further properties of the methods (checked under SpecInv)               *)
(***************************************************************************)
IsRefillCall == last.fn = "refill_inventory"
IsUpdateCall == last.fn = "update"

\* C40: get_category_summary is total: for every cache state it returns
\* without raising, and what it returns has an entry with items_count for
\* every ingredient type of the cache.
C40_CategorySummaryIsTotal ==
    last.fn = "get_category_summary" =>
        /\ ~last.result.raised
        /\ DOMAIN last.result.summary = CacheTypes
        /\ \A t \in CacheTypes :
              last.result.summary[t].items_count = Len(SubtypesOf(last.pre, t))

PeriodicJobs == (IF det.pc = "detect" THEN 1 ELSE 0) + sched.orphans

\* C34: once stop_periodic_detection has returned (and until the detection is
\* started again) no step changes the cache or the store: a detection job that
\* was running when the task was cancelled writes nothing afterwards.
C34_NoMutationAfterStop ==
    [][StopReturned /\ StopReturned' => inventory_cache' = inventory_cache /\ db' = db]_vars

\* C35: for every sequence of start_periodic_detection and
\* stop_periodic_detection calls the thread pool never holds two periodic
\* detection jobs at once, and a loop is created only when none is active.
C35_OneLoopOneJob ==
    /\ [](PeriodicJobs <= 1)
    /\ [][loop_pc' = "created" => loop_pc = "stopped"]_vars

====
